---- MODULE Spec2Model ----
(***************************************************************************)
(* Guro learning application: progress store, unlock policy, level session *)
(* (LevelView) and the top-level view controller (App).                    *)
(*                                                                         *)
(* React state is modelled after every handler together with the effects   *)
(* it triggers (useEffect bodies run to quiescence before the next event). *)
(* Array indices are 0-based as in the source; At(s, i) reads s[i].        *)
(***************************************************************************)
EXTENDS Integers, Sequences, FiniteSets, TLC

\* Largest number of setTimeout callbacks pending at once.
MaxTimers == 2

\* JavaScript null / undefined, for string-valued fields.
Null == "null"

\* An optional object (`x?: T`, `T | null`): <<>> when absent, <<x>> when present.
None == <<>>

Some(x) == <<x>>

Get(o) == o[1]

\* ------------------------------------------------------------------------
\* types.ts
\* ------------------------------------------------------------------------

\* ProjectCode: three optional string fields.
EmptyProjectCode == [html |-> Null, css |-> Null, js |-> Null]

\* `{ ...pc, [field]: code }`
WithField(pc, field, code) == [pc EXCEPT ![field] = code]

\* ------------------------------------------------------------------------
\* constants/levels.ts: the catalog, abridged to three levels.  Each task
\* keeps its id, language, the shape of its starter-code supplier (a fixed
\* template, or `pc?.<language> || template`) and whether its validator returns an
\* updatedProjectCode.  `solution` stands for a text the validator accepts;
\* `guarded` tells whether the whole validator runs inside the try/catch of
\* validateHTMLStructure / validateCSSProperties (task 21.2, like task 2.2,
\* parses and queries the document in its own body).  `requiresHtml` is the
\* attribute the validator looks for in the accumulated html before anything
\* else (tasks 9.1 and 9.2), Null when it does not.
\* ------------------------------------------------------------------------
LEVELS ==
  << [ id |-> "1", title |-> "Intro: What is HTML?", projectType |-> Null,
       tasks |-> << [id |-> "1.1", language |-> "html", starterFromProject |-> FALSE,
                     updatesProject |-> FALSE, solution |-> "sol-1.1",
                     guarded |-> TRUE, requiresHtml |-> Null],
                    [id |-> "1.2", language |-> "html", starterFromProject |-> TRUE,
                     updatesProject |-> FALSE, solution |-> "sol-1.2",
                     guarded |-> TRUE, requiresHtml |-> Null],
                    [id |-> "1.3", language |-> "html", starterFromProject |-> TRUE,
                     updatesProject |-> FALSE, solution |-> "sol-1.3",
                     guarded |-> TRUE, requiresHtml |-> Null] >>,
       unlocksNextLevel |-> "21" ],
     [ id |-> "21", title |-> "Calc HTML: Structure", projectType |-> "calculator",
       tasks |-> << [id |-> "21.1", language |-> "html", starterFromProject |-> FALSE,
                     updatesProject |-> TRUE, solution |-> "sol-21.1",
                     guarded |-> TRUE, requiresHtml |-> Null],
                    [id |-> "21.2", language |-> "html", starterFromProject |-> TRUE,
                     updatesProject |-> TRUE, solution |-> "sol-21.2",
                     guarded |-> FALSE, requiresHtml |-> Null] >>,
       unlocksNextLevel |-> "22" ],
     [ id |-> "22", title |-> "Calc CSS: Styling", projectType |-> "calculator",
       tasks |-> << [id |-> "22.1", language |-> "css", starterFromProject |-> TRUE,
                     updatesProject |-> TRUE, solution |-> "sol-22.1",
                     guarded |-> TRUE, requiresHtml |-> Null] >>,
       unlocksNextLevel |-> Null ] >>

\* A level identifier that is not in the catalog (a stale deep link).
UnknownLevelId == "99"

At(s, i) == s[i + 1]

Indices(s) == 0 .. (Len(s) - 1)

\* Array.prototype.findIndex(l => l.id === id): first match, or -1.
FindIndexById(lv, id) ==
  IF \E i \in Indices(lv) : At(lv, i).id = id
  THEN CHOOSE i \in Indices(lv) :
         /\ At(lv, i).id = id
         /\ \A j \in Indices(lv) : At(lv, j).id = id => i <= j
  ELSE -1

\* Array.prototype.find(l => l.id === id): the element, or undefined.
FindById(lv, id) ==
  IF FindIndexById(lv, id) >= 0 THEN Some(At(lv, FindIndexById(lv, id))) ELSE None

LevelIds(lv) == { At(lv, i).id : i \in Indices(lv) }

\* An html text in which a paragraph carries class='highlight' and the
\* heading id='main-title'.
MarkedHtml == "<h1 id='main-title'></h1><p class='highlight'></p>"

\* html.includes(attribute): of the html texts of the model only MarkedHtml
\* holds the two attributes.
HtmlIncludes(html, attribute) ==
  html = MarkedHtml /\ attribute \in { "class='highlight'", "id='main-title'" }

\* !(!pc?.html || !pc.html.includes(attribute))
HasAccumulatedHtml(pc, attribute) ==
  pc.html # Null /\ pc.html # "" /\ HtmlIncludes(pc.html, attribute)

\* The validator of a task, as a function of the submitted text and the
\* accumulated ProjectCode.
Validate(task, code, pc) ==
  IF /\ task.requiresHtml # Null => HasAccumulatedHtml(pc, task.requiresHtml)
     /\ code = task.solution
  THEN [ success |-> TRUE, message |-> "passed",
         updatedProjectCode |-> IF task.updatesProject
                                THEN Some(WithField(pc, task.language, code))
                                ELSE None ]
  ELSE [ success |-> FALSE, message |-> "failed", updatedProjectCode |-> None ]

\* An editor text on which the body of an unguarded validator raises.
Crash == "crash"

\* currentTask.validate(userCode, projectCode) raises an exception.
ValidatorThrows(task, code) == ~task.guarded /\ code = Crash

\* The template a task shows when nothing has been accumulated.
Template == "template"

\* typeof starterCode === 'function' ? starterCode(projectCode) : starterCode || ''
StarterCode(task, pc) ==
  IF task.starterFromProject /\ pc[task.language] # Null /\ pc[task.language] # ""
  THEN pc[task.language]
  ELSE Template

\* ------------------------------------------------------------------------
\* constants/levels.ts: validateHTMLStructure
\*
\* A submitted markup is the sequence of the elements written in it, in
\* document order.  Each has its tag, the tag of the element it is written
\* in (Null at top level), its own text as a sequence of words, and its
\* attributes.
\* ------------------------------------------------------------------------

NoAttributes == [ a \in {} |-> "" ]

Element(tag, parent, text, attributes) ==
  [ tag |-> tag, parent |-> parent, text |-> text, attributes |-> attributes ]

\* Elements the HTML parser keeps in the head.
MetadataTags == { "title" }

StructureTags == { "html", "head", "body" }

\* new DOMParser().parseFromString(code, 'text/html'): the document always
\* has an html element with a head and a body, written or not; what is
\* written outside them is placed in the head (metadata) or in the body.
ParseHTML(code) ==
  LET content == SelectSeq(code, LAMBDA e : e.tag \notin StructureTags)
      Placed(e) ==
        IF e.parent \in StructureTags \cup { Null }
        THEN [ e EXCEPT !.parent = IF e.tag \in MetadataTags /\ e.parent # "body"
                                   THEN "head" ELSE "body" ]
        ELSE e
  IN << Element("html", Null, <<>>, NoAttributes),
        Element("head", "html", <<>>, NoAttributes),
        Element("body", "html", <<>>, NoAttributes) >>
     \o [ i \in DOMAIN content |-> Placed(content[i]) ]

\* node.textContent: the node's text followed by that of its descendants.
RECURSIVE TextFrom(_, _, _)
TextFrom(doc, ancestors, i) ==
  IF i > Len(doc) THEN <<>>
  ELSE IF doc[i].parent \in ancestors
  THEN doc[i].text \o TextFrom(doc, ancestors \cup { doc[i].tag }, i + 1)
  ELSE TextFrom(doc, ancestors, i + 1)

TextContent(doc, i) == doc[i].text \o TextFrom(doc, { doc[i].tag }, i + 1)

\* String.prototype.includes, on sequences of words.
Includes(text, part) ==
  \E k \in 0 .. (Len(text) - Len(part)) : SubSeq(text, k + 1, k + Len(part)) = part

\* element.getAttribute(name): the value, or null.
GetAttribute(element, name) ==
  IF name \in DOMAIN element.attributes THEN element.attributes[name] ELSE Null

\* The tag that stands for a comment in an expectation.
CommentMarker == "!--"

\* An expectation of validateHTMLStructure; text <<>>, attributes <<>>,
\* count None and parentSelector Null when not given.
Expect(tag, text, attributes, count, parentSelector) ==
  [ tag |-> tag, text |-> text, attributes |-> attributes, count |-> count,
    parentSelector |-> parentSelector ]

\* `${n}` for a number of one digit.
NumberWord(n) == << "0", "1", "2", "3", "4", "5", "6", "7", "8", "9" >>[n + 1]

\* The text of a failure message, as its sequence of words (punctuation and
\* the angle brackets around the tag left out); `found` is what the template
\* quotes from the document.
HTMLMessageWords(kind, el, attribute, found) ==
  LET inside == IF el.parentSelector # Null THEN << "inside", el.parentSelector >>
                ELSE <<>>
  IN CASE kind = "count" ->
            << "Expected", NumberWord(Get(el.count)), el.tag, "element(s)" >> \o inside
              \o << "but", "found" >> \o found
       [] kind = "missing" -> << "Missing", el.tag, "element" >> \o inside
       [] kind = "text" ->
            << el.tag, "element", "should", "contain", "text:" >> \o el.text
              \o << "Found:" >> \o found
       [] kind = "attribute" ->
            << el.tag, "element", "attribute", attribute, "should", "be", found[1],
               "Found", found[2] >>
       [] OTHER -> << "Error", "parsing", "HTML:" >>

\* The ValidationResult of a failure, with the parts its message is built from.
HTMLFailure(kind, el, attribute, found) ==
  [ success |-> FALSE,
    message |-> [ kind |-> kind, tag |-> el.tag, parentSelector |-> el.parentSelector,
                  attribute |-> attribute,
                  words |-> HTMLMessageWords(kind, el, attribute, found) ] ]

HTMLSuccess ==
  [ success |-> TRUE,
    message |-> [ kind |-> "ok", tag |-> Null, parentSelector |-> Null,
                  attribute |-> Null,
                  words |-> << "HTML", "structure", "looks", "good!" >> ] ]

\* The `for (const el of expectedElements)` loop, from the k-th expectation.
\* The comment marker is no valid selector: querySelectorAll raises and the
\* catch clause returns the failure.
RECURSIVE CheckElements(_, _, _)
CheckElements(doc, expectedElements, k) ==
  IF k > Len(expectedElements) THEN HTMLSuccess
  ELSE
    LET el == expectedElements[k]
        elements == { i \in DOMAIN doc :
                        /\ doc[i].tag = el.tag
                        /\ el.parentSelector # Null => doc[i].parent = el.parentSelector }
        length == Cardinality(elements)
        firstElement == CHOOSE i \in elements : \A j \in elements : i <= j
        mismatches == { a \in DOMAIN el.attributes :
                          GetAttribute(doc[firstElement], el.attributes[a][1])
                            # el.attributes[a][2] }
        firstMismatch == CHOOSE a \in mismatches : \A b \in mismatches : a <= b
    IN IF el.tag = CommentMarker THEN HTMLFailure("error", el, Null, <<>>)
       ELSE IF el.count # None /\ length # Get(el.count)
       THEN HTMLFailure("count", el, Null, << NumberWord(length) >>)
       ELSE IF ( el.count = None \/ Get(el.count) = 0 ) /\ length = 0
                /\ el.tag # CommentMarker
       THEN HTMLFailure("missing", el, Null, <<>>)
       ELSE IF length > 0 /\ el.text # <<>>
                /\ ~Includes(TextContent(doc, firstElement), el.text)
       THEN HTMLFailure("text", el, Null, TextContent(doc, firstElement))
       ELSE IF length > 0 /\ mismatches # {}
       THEN HTMLFailure("attribute", el, el.attributes[firstMismatch][1],
                        << el.attributes[firstMismatch][2],
                           GetAttribute(doc[firstElement], el.attributes[firstMismatch][1]) >>)
       ELSE CheckElements(doc, expectedElements, k + 1)

validateHTMLStructure(code, expectedElements) ==
  CheckElements(ParseHTML(code), expectedElements, 1)

\* Task 4.1: the expectations handed to validateHTMLStructure.
Task41Expectations ==
  << Expect("ul", <<>>, <<>>, None, Null),
     Expect("li", << "Apple" >>, <<>>, Some(1), "ul"),
     Expect("li", << "Banana" >>, <<>>, Some(1), "ul") >>

\* Task 4.1: the "Refine count check" block.
RefinedListCheck(doc) ==
  LET lis == { i \in DOMAIN doc : doc[i].tag = "li" /\ doc[i].parent = "ul" }
      texts == { TextContent(doc, i) : i \in lis }
      Outcome(success, kind, words) ==
        [ success |-> success,
          message |-> [ kind |-> kind, tag |-> "li", parentSelector |-> "ul",
                        attribute |-> Null, words |-> words ] ]
  IN IF Cardinality(lis) # 2
     THEN Outcome(FALSE, "refined-count",
                  << "Expected", "2", "list", "items", "li", "inside", "ul", "found",
                     NumberWord(Cardinality(lis)) >>)
     ELSE IF << "Apple" >> \notin texts \/ << "Banana" >> \notin texts
     THEN Outcome(FALSE, "refined-texts",
                  << "List", "items", "should", "be", "Apple", "and", "Banana" >>)
     ELSE Outcome(TRUE, "created", << "Unordered", "list", "created!" >>)

\* Task 4.1: validate(code).
validateTask41(code) ==
  LET res == validateHTMLStructure(code, Task41Expectations)
  IN IF ~res.success /\ Includes(res.message.words, << "count" >>)
     THEN RefinedListCheck(ParseHTML(code))
     ELSE res

\* ------------------------------------------------------------------------
\* constants/levels.ts: validateCSSProperties
\*
\* A style text, a selector, a property name and a value are sequences of
\* characters; indices are 0-based as in the source.
\* ------------------------------------------------------------------------

MinOf(set) == CHOOSE i \in set : \A j \in set : i <= j

\* String.prototype.indexOf(part, fromIndex): first index at or after
\* fromIndex where part starts, or -1.
IndexOf(text, part, fromIndex) ==
  LET start == IF fromIndex < 0 THEN 0 ELSE fromIndex
      hits == { i \in start .. (Len(text) - Len(part)) :
                  SubSeq(text, i + 1, i + Len(part)) = part }
  IN IF hits = {} THEN -1 ELSE MinOf(hits)

\* String.prototype.substring(start, end), for 0 <= start <= end.
Substring(text, start, end) == SubSeq(text, start + 1, end)

\* \s of a regular expression.
WhiteSpace == { " " }

\* The index after the run of white space that starts at index i.
RECURSIVE SkipSpace(_, _)
SkipSpace(text, i) ==
  IF i < Len(text) /\ text[i + 1] \in WhiteSpace THEN SkipSpace(text, i + 1) ELSE i

\* The index of the next ';' at or after index i, or the length of the text.
RECURSIVE UntilSemicolon(_, _)
UntilSemicolon(text, i) ==
  IF i < Len(text) /\ text[i + 1] # ";" THEN UntilSemicolon(text, i + 1) ELSE i

\* Where the group ([^;]+) of `${prop}\s*:\s*([^;]+)` starts when the
\* expression matches with prop at index i, or -1 when it does not match
\* there: white space, a colon, white space, then at least one character
\* other than ';' (the last white space character if nothing else is left).
GroupStartAt(ruleContent, prop, i) ==
  LET colon == SkipSpace(ruleContent, i + Len(prop))
      value == SkipSpace(ruleContent, colon + 1)
  IN IF SubSeq(ruleContent, i + 1, i + Len(prop)) # prop THEN -1
     ELSE IF ~( colon < Len(ruleContent) /\ ruleContent[colon + 1] = ":" ) THEN -1
     ELSE IF value < Len(ruleContent) /\ ruleContent[value + 1] # ";" THEN value
     ELSE IF value > colon + 1 THEN value - 1
     ELSE -1

\* ruleContent.match(propRegex): None, or the text of the group of the
\* leftmost match.
MatchProperty(ruleContent, prop) ==
  LET hits == { i \in 0 .. (Len(ruleContent) - Len(prop)) :
                  GroupStartAt(ruleContent, prop, i) >= 0 }
      start == GroupStartAt(ruleContent, prop, MinOf(hits))
  IN IF hits = {} THEN None
     ELSE Some(Substring(ruleContent, start, UntilSemicolon(ruleContent, start)))

\* String.prototype.trim
RECURSIVE Trim(_)
Trim(text) ==
  IF text # <<>> /\ Head(text) \in WhiteSpace THEN Trim(Tail(text))
  ELSE IF text # <<>> /\ text[Len(text)] \in WhiteSpace
  THEN Trim(SubSeq(text, 1, Len(text) - 1))
  ELSE text

\* The lower-case form of the capital letters that occur in the inputs.
LowerCaseOf == ( "R" :> "r" ) @@ ( "E" :> "e" ) @@ ( "D" :> "d" )

\* String.prototype.toLowerCase
ToLowerCase(text) ==
  [ i \in DOMAIN text |-> IF text[i] \in DOMAIN LowerCaseOf THEN LowerCaseOf[text[i]]
                          ELSE text[i] ]

\* The ValidationResult of validateCSSProperties, with the parts its message
\* is built from.
CSSResult(success, kind, selector, property) ==
  [ success |-> success,
    message |-> [ kind |-> kind, selector |-> selector, property |-> property ] ]

\* The `for (const prop in style.properties)` loop, from the k-th property.
\* A property is a pair << name, value >>; the value is
\* [ pattern |-> FALSE, text |-> literal ], or, for a RegExp of the form
\* /text.*/, [ pattern |-> TRUE, text |-> text ].
RECURSIVE CheckProperties(_, _, _)
CheckProperties(ruleContent, style, k) ==
  IF k > Len(style.properties) THEN CSSResult(TRUE, "ok", <<>>, <<>>)
  ELSE
    LET prop == style.properties[k][1]
        value == style.properties[k][2]
        match == MatchProperty(ruleContent, prop)
        actualValue == Trim(Get(match))
    IN IF match = None THEN CSSResult(FALSE, "property", style.selector, prop)
       ELSE IF value.pattern /\ ~Includes(actualValue, value.text)
       THEN CSSResult(FALSE, "pattern", style.selector, prop)
       ELSE IF ~value.pattern /\ ToLowerCase(actualValue) # ToLowerCase(value.text)
       THEN CSSResult(FALSE, "value", style.selector, prop)
       ELSE CheckProperties(ruleContent, style, k + 1)

\* The `for (const style of expectedStyles)` loop, from the k-th style.
RECURSIVE CheckStyles(_, _, _)
CheckStyles(code, expectedStyles, k) ==
  IF k > Len(expectedStyles) THEN CSSResult(TRUE, "ok", <<>>, <<>>)
  ELSE
    LET style == expectedStyles[k]
        selectorIndex == IndexOf(code, style.selector, 0)
        ruleStartIndex == IndexOf(code, << "{" >>, selectorIndex)
        ruleEndIndex == IndexOf(code, << "}" >>, ruleStartIndex)
        ruleContent == Substring(code, ruleStartIndex + 1, ruleEndIndex)
        properties == CheckProperties(ruleContent, style, 1)
    IN IF selectorIndex = -1 THEN CSSResult(FALSE, "selector", style.selector, <<>>)
       ELSE IF ruleStartIndex = -1 \/ ruleEndIndex = -1
       THEN CSSResult(FALSE, "braces", style.selector, <<>>)
       ELSE IF ~properties.success THEN properties
       ELSE CheckStyles(code, expectedStyles, k + 1)

validateCSSProperties(code, expectedStyles) == CheckStyles(code, expectedStyles, 1)

\* ------------------------------------------------------------------------
\* Progress store (App: userProgress)
\* ------------------------------------------------------------------------

DefaultLevelProgress ==
  [ completedTasks |-> {}, currentProjectCode |-> EmptyProjectCode, isCompleted |-> FALSE ]

\* userProgress[levelId] || default
ProgressOf(up, levelId) ==
  IF levelId \in DOMAIN up THEN up[levelId] ELSE DefaultLevelProgress

\* userProgress[levelId]?.isCompleted
IsCompleted(up, levelId) == levelId \in DOMAIN up /\ up[levelId].isCompleted

\* { ...prev, [levelId]: entry }
Put(up, levelId, entry) ==
  [ l \in DOMAIN up \cup {levelId} |-> IF l = levelId THEN entry ELSE up[l] ]

\* updateTaskProgress without the "all tasks complete" test.
updateTaskProgress_NoCompletionCheck(prev, lv, levelId, taskId, projectCodeUpdate) ==
  LET currentLevelProgress == ProgressOf(prev, levelId)
      newCompletedTasks == currentLevelProgress.completedTasks \cup {taskId}
  IN Put(prev, levelId,
         [ currentLevelProgress EXCEPT
             !.completedTasks = newCompletedTasks,
             !.currentProjectCode = IF projectCodeUpdate # None THEN Get(projectCodeUpdate)
                                    ELSE currentLevelProgress.currentProjectCode ])

\* updateTaskProgress testing the size of the previous set.
updateTaskProgress_StaleSize(prev, lv, levelId, taskId, projectCodeUpdate) ==
  LET currentLevelProgress == ProgressOf(prev, levelId)
      newCompletedTasks == currentLevelProgress.completedTasks \cup {taskId}
      levelDefinition == FindById(lv, levelId)
      updatedLevelData ==
        [ currentLevelProgress EXCEPT
            !.completedTasks = newCompletedTasks,
            !.currentProjectCode = IF projectCodeUpdate # None THEN Get(projectCodeUpdate)
                                   ELSE currentLevelProgress.currentProjectCode ]
  IN Put(prev, levelId,
         IF levelDefinition # None
            /\ Cardinality(currentLevelProgress.completedTasks)
                 = Len(Get(levelDefinition).tasks)
         THEN [ updatedLevelData EXCEPT !.isCompleted = TRUE ]
         ELSE updatedLevelData)

\* The setUserProgress updater of updateTaskProgress.
updateTaskProgress(prev, lv, levelId, taskId, projectCodeUpdate) ==
  LET currentLevelProgress == ProgressOf(prev, levelId)
      newCompletedTasks == currentLevelProgress.completedTasks \cup {taskId}
      levelDefinition == FindById(lv, levelId)
      updatedLevelData ==
        [ currentLevelProgress EXCEPT
            !.completedTasks = newCompletedTasks,
            !.currentProjectCode = IF projectCodeUpdate # None THEN Get(projectCodeUpdate)
                                   ELSE currentLevelProgress.currentProjectCode ]
  IN Put(prev, levelId,
         IF levelDefinition # None
            /\ Cardinality(newCompletedTasks) = Len(Get(levelDefinition).tasks)
         THEN [ updatedLevelData EXCEPT !.isCompleted = TRUE ]
         ELSE updatedLevelData)

\* completeLevel writing a fresh entry instead of spreading the previous one.
completeLevelProgress_FreshEntry(prev, levelId, finalProjectCode) ==
  Put(prev, levelId,
      [ DefaultLevelProgress EXCEPT
          !.isCompleted = TRUE,
          !.currentProjectCode = IF finalProjectCode # None THEN Get(finalProjectCode)
                                 ELSE DefaultLevelProgress.currentProjectCode ])

\* The setUserProgress updater of completeLevel.
completeLevelProgress(prev, levelId, finalProjectCode) ==
  LET base == IF levelId \in DOMAIN prev THEN prev[levelId] ELSE DefaultLevelProgress
  IN Put(prev, levelId,
         [ base EXCEPT
             !.isCompleted = TRUE,
             !.currentProjectCode = IF finalProjectCode # None THEN Get(finalProjectCode)
                                    ELSE base.currentProjectCode ])

\* ------------------------------------------------------------------------
\* Persistence (localStorage item 'guroUserProgress')
\* ------------------------------------------------------------------------

\* localStorage.getItem(...) === null
NoItem == [ kind |-> "none", entries |-> <<>> ]

EmptyStore == [ l \in {} |-> DefaultLevelProgress ]

RangeOf(s) == { s[i] : i \in DOMAIN s }

\* Array.from(set): the elements of the set, each once.
ArrayFrom(set) ==
  CHOOSE s \in [ 1 .. Cardinality(set) -> set ] : RangeOf(s) = set

\* JSON.stringify(userProgress, replacer): every Set is written as an array.
StringifyProgress(up) ==
  [ kind |-> "object",
    entries |-> [ l \in DOMAIN up |->
                    [ kind |-> "object",
                      completedTasks |-> [ kind |-> "array",
                                           items |-> ArrayFrom(up[l].completedTasks) ],
                      currentProjectCode |-> up[l].currentProjectCode,
                      isCompleted |-> up[l].isCompleted ] ] ]

\* A parsed JSON value is truthy: arrays, objects and non-empty strings are;
\* a missing field ("missing"), null and 0 ("zero") are not.
Truthy(json) == json.kind \in { "array", "object", "string" }

\* The load raises an exception: JSON.parse on a text that is not JSON
\* ("invalid"), Object.keys(null), parsed[levelId].completedTasks of a null
\* entry, and the assignment of completedTasks to an entry that is a
\* primitive (a number, or a character of a JSON string) in module code.
LoadThrows(savedProgress) ==
  \/ savedProgress.kind \in { "invalid", "null", "string" }
  \/ /\ savedProgress.kind = "object"
     /\ \E l \in DOMAIN savedProgress.entries :
          savedProgress.entries[l].kind \in { "null", "scalar" }

\* The load with the Array.isArray test inverted.
LoadProgress_WrongArrayTest(savedProgress) ==
  IF savedProgress.kind \in { "none", "empty" }
  THEN EmptyStore
  ELSE [ l \in DOMAIN savedProgress.entries |->
           LET e == savedProgress.entries[l]
           IN [ completedTasks |-> IF e.completedTasks.kind = "array"
                                   THEN {}
                                   ELSE RangeOf(e.completedTasks.items),
                currentProjectCode |-> e.currentProjectCode,
                isCompleted |-> e.isCompleted ] ]

\* The load without the Array.isArray test: new Set(value) for every truthy
\* completedTasks (a string gives the set of its characters).
LoadProgress_NoArrayTest(savedProgress) ==
  IF savedProgress.kind \in { "none", "empty" }
  THEN EmptyStore
  ELSE [ l \in DOMAIN savedProgress.entries |->
           LET e == savedProgress.entries[l]
           IN [ completedTasks |-> IF Truthy(e.completedTasks)
                                   THEN RangeOf(e.completedTasks.items)
                                   ELSE {},
                currentProjectCode |-> e.currentProjectCode,
                isCompleted |-> e.isCompleted ] ]

\* The useState initializer of userProgress when it returns: no item (or
\* the empty string) gives {}; otherwise the parsed value with the Set
\* objects restored.  A truthy completedTasks becomes new Set(array) when it
\* is an array and an empty Set when it is not; a falsy or missing one
\* becomes an empty Set.  A parsed number or boolean has no keys.
LoadProgress(savedProgress) ==
  IF savedProgress.kind \in { "none", "empty" }
  THEN EmptyStore
  ELSE [ l \in DOMAIN savedProgress.entries |->
           LET e == savedProgress.entries[l]
           IN [ completedTasks |-> IF Truthy(e.completedTasks)
                                   THEN IF e.completedTasks.kind = "array"
                                        THEN RangeOf(e.completedTasks.items)
                                        ELSE {}
                                   ELSE {},
                currentProjectCode |-> e.currentProjectCode,
                isCompleted |-> e.isCompleted ] ]

\* ------------------------------------------------------------------------
\* Unlock policy (App useEffect on userProgress)
\* ------------------------------------------------------------------------

\* The inner `for (let i = 0; ...)` scan, from index i.
RECURSIVE FirstUncompletedScan(_, _, _, _)
FirstUncompletedScan(lv, up, i, maxUnlocked) ==
  IF i >= Len(lv) THEN maxUnlocked
  ELSE IF ~IsCompleted(up, At(lv, i).id) THEN At(lv, i).id
  ELSE IF i = Len(lv) - 1 THEN At(lv, i).id
  ELSE FirstUncompletedScan(lv, up, i + 1, maxUnlocked)

\* The `for (const level of LEVELS)` loop, from index i; yields maxUnlocked
\* and allLevelsCompleted as they are when the loop ends or breaks.
RECURSIVE UnlockLoop(_, _, _, _)
UnlockLoop(lv, up, i, maxUnlocked) ==
  IF i >= Len(lv)
  THEN [ maxUnlocked |-> maxUnlocked, allLevelsCompleted |-> TRUE ]
  ELSE LET level == At(lv, i)
       IN IF IsCompleted(up, level.id)
          THEN LET nextLevel == FindById(lv, level.unlocksNextLevel)
               IN UnlockLoop(lv, up, i + 1,
                             IF nextLevel # None THEN Get(nextLevel).id
                             ELSE IF level.unlocksNextLevel = Null THEN level.id
                             ELSE maxUnlocked)
          ELSE LET levelIndex == FindIndexById(lv, level.id)
               IN [ maxUnlocked |->
                      IF levelIndex = 0 THEN level.id
                      ELSE IF IsCompleted(up, At(lv, levelIndex - 1).id) THEN level.id
                      ELSE FirstUncompletedScan(lv, up, 0, maxUnlocked),
                    allLevelsCompleted |-> FALSE ]

\* The policy without the final "all levels completed" override: the
\* result is whatever the unlocksNextLevel pointers led to.
ComputeHighestUnlocked_TrustPointers(lv, up) ==
  IF Len(lv) = 0 THEN "1" ELSE UnlockLoop(lv, up, 0, "1").maxUnlocked

\* The value handed to setHighestLevelUnlocked.
ComputeHighestUnlocked(lv, up) ==
  IF Len(lv) = 0 THEN "1"
  ELSE LET r == UnlockLoop(lv, up, 0, "1")
       IN IF r.allLevelsCompleted THEN At(lv, Len(lv) - 1).id ELSE r.maxUnlocked

\* ------------------------------------------------------------------------
\* State
\* ------------------------------------------------------------------------
VARIABLES
  levels,                \* the catalog (LEVELS), never changed
  currentView,           \* App: 'level_selector' | 'level_view'
  currentLevelId,        \* App: string | null
  userProgress,          \* App: the progress store
  highestLevelUnlocked,  \* App
  storage,               \* localStorage item 'guroUserProgress'
  alertMessage,          \* the last alert() shown by selectLevel
  currentTaskIndex,      \* LevelView
  userCode,              \* LevelView: the editor text
  feedback,              \* LevelView: ValidationResult | null
  projectCode,           \* LevelView
  isSubmitting,          \* LevelView
  timers,                \* pending setTimeout callbacks, oldest first
  appCrashed,            \* the first render of App raised an exception
  htmlCheck,             \* a call of validateHTMLStructure: arguments and result
  cssCheck,              \* a call of validateCSSProperties: arguments and result
  messages,              \* chat page: every message element created, by number
  chatLog,               \* chat page: the children of #chat-log, in order
  isLoading,             \* chat page: AppState.isLoading
  currentAIMessageElement, \* chat page: AppState.currentAIMessageElement, 0 for null
  streaming,             \* chat page: sendMessage is between its first await and its end
  groundingMetadata,     \* chat page: sendMessage's groundingMetadata has been set
  received               \* chat page: chunks of the current response received

appVars == << currentView, currentLevelId, userProgress, highestLevelUnlocked, storage >>

sessionVars == << currentTaskIndex, userCode, feedback, projectCode, isSubmitting >>

vars == << levels, currentView, currentLevelId, userProgress, highestLevelUnlocked,
           storage, alertMessage, currentTaskIndex, userCode, feedback, projectCode,
           isSubmitting, timers, appCrashed, htmlCheck, cssCheck, messages, chatLog,
           isLoading, currentAIMessageElement, streaming, groundingMetadata, received >>

validatorVars == << htmlCheck, cssCheck >>

chatVars == << messages, chatLog, isLoading, currentAIMessageElement, streaming,
               groundingMetadata, received >>

NoAlert == [ kind |-> "none", complete |-> Null, unlock |-> Null ]

\* No call of validateHTMLStructure is looked at.
NoCheck == [ code |-> <<>>, expectedElements |-> <<>>, result |-> None ]

\* No call of validateCSSProperties is looked at.
NoStyleCheck == [ code |-> <<>>, expectedStyles |-> <<>>, result |-> None ]

\* The chat page after UI.initialize(): an empty log, nothing in flight.
ChatPageLoaded ==
  /\ messages = <<>>
  /\ chatLog = <<>>
  /\ isLoading = FALSE
  /\ currentAIMessageElement = 0
  /\ streaming = FALSE
  /\ groundingMetadata = FALSE
  /\ received = 0

\* getCurrentLevel(), when the LevelView is rendered.
LevelViewMounted ==
  /\ currentView = "level_view"
  /\ currentLevelId # Null
  /\ FindIndexById(levels, currentLevelId) >= 0

CurrentLevel == At(levels, FindIndexById(levels, currentLevelId))

\* A LevelView that always starts at the first task.
FirstUncompletedIndex_FirstTask(level, progress) == 0

\* level.tasks.findIndex(task => !completedTasks.has(task.id)), or tasks.length.
FirstUncompletedIndex(level, progress) ==
  IF \E i \in Indices(level.tasks) : At(level.tasks, i).id \notin progress.completedTasks
  THEN CHOOSE i \in Indices(level.tasks) :
         /\ At(level.tasks, i).id \notin progress.completedTasks
         /\ \A j \in Indices(level.tasks) :
              At(level.tasks, j).id \notin progress.completedTasks => i <= j
  ELSE Len(level.tasks)

\* const currentTask = level.tasks[currentTaskIndex] is defined.
HasCurrentTask == LevelViewMounted /\ currentTaskIndex < Len(CurrentLevel.tasks)

CurrentTask == At(CurrentLevel.tasks, currentTaskIndex)

\* What the LevelView renders: the "Level Complete!" screen (with "Back to
\* Levels"), the "Loading task or all tasks completed..." text (no button),
\* or the task with its editor (with "Exit Level").
Screen(level, progress, taskIndex) ==
  IF taskIndex >= Len(level.tasks) /\ progress.isCompleted THEN "level_complete"
  ELSE IF taskIndex >= Len(level.tasks) THEN "loading"
  ELSE "task"

\* The LevelView state of a view that is not rendered.
SessionUnmounted ==
  /\ currentTaskIndex' = 0
  /\ userCode' = ""
  /\ feedback' = None
  /\ projectCode' = EmptyProjectCode
  /\ isSubmitting' = FALSE

\* A freshly rendered LevelView after its two effects have run: the first
\* uncompleted task is selected and the editor is seeded from the starter
\* code of the task shown last.
SessionMounted(level, progress) ==
  LET idx == FirstUncompletedIndex(level, progress)
      pc == progress.currentProjectCode
      shown == IF idx < Len(level.tasks) THEN At(level.tasks, idx) ELSE At(level.tasks, 0)
  IN /\ currentTaskIndex' = idx
     /\ projectCode' = pc
     /\ userCode' = StarterCode(shown, pc)
     /\ feedback' = None
     /\ isSubmitting' = FALSE

\* The effect saving the store of the previous render.
ProgressEffect_SavesPrevious ==
  /\ storage' = StringifyProgress(userProgress)
  /\ highestLevelUnlocked' = ComputeHighestUnlocked(levels, userProgress')

\* The effect saving the store and keeping the unlock it had.
ProgressEffect_NoRecompute ==
  /\ storage' = StringifyProgress(userProgress')
  /\ UNCHANGED highestLevelUnlocked

\* The App effect on [userProgress]: save, then recompute the unlock.
ProgressEffect ==
  /\ storage' = StringifyProgress(userProgress')
  /\ highestLevelUnlocked' = ComputeHighestUnlocked(levels, userProgress')

\* Unmounting a LevelView leaves its timers pending, with nothing to act on.
Orphaned(ts) == [ i \in DOMAIN ts |-> [ ts[i] EXCEPT !.live = FALSE ] ]

\* First start of the page: nothing in localStorage.
Init ==
  /\ levels = LEVELS
  /\ currentView = "level_selector"
  /\ currentLevelId = Null
  /\ userProgress = LoadProgress(NoItem)
  /\ storage = StringifyProgress(LoadProgress(NoItem))
  /\ highestLevelUnlocked = ComputeHighestUnlocked(LEVELS, LoadProgress(NoItem))
  /\ alertMessage = NoAlert
  /\ currentTaskIndex = 0
  /\ userCode = ""
  /\ feedback = None
  /\ projectCode = EmptyProjectCode
  /\ isSubmitting = FALSE
  /\ timers = <<>>
  /\ appCrashed = FALSE
  /\ htmlCheck = NoCheck
  /\ cssCheck = NoStyleCheck
  /\ ChatPageLoaded

\* ------------------------------------------------------------------------
\* App handlers
\* ------------------------------------------------------------------------

\* selectLevel with the generic advisory only.
LockedMessage_Generic(lv, highestUnlockedIndex) ==
  [ kind |-> "generic", complete |-> Null, unlock |-> Null ]

\* The advisory of a rejected selection.
LockedMessage(lv, highestUnlockedIndex) ==
  IF highestUnlockedIndex + 1 < Len(lv)
  THEN [ kind |-> "specific",
         complete |-> At(lv, highestUnlockedIndex).title,
         unlock |-> At(lv, highestUnlockedIndex + 1).title ]
  ELSE [ kind |-> "generic", complete |-> Null, unlock |-> Null ]

\* selectLevel with `<` for `<=`.
SelectLevelAllowed_Strict(lv, levelId, highest) ==
  /\ FindIndexById(lv, levelId) >= 0
  /\ FindIndexById(lv, levelId) < FindIndexById(lv, highest)

\* selectLevel without the unlock test.
SelectLevelAllowed_NoLock(lv, levelId, highest) == FindIndexById(lv, levelId) >= 0

\* selectLevel letting the level after the highest-unlocked one through.
SelectLevelAllowed_OneBeyond(lv, levelId, highest) ==
  /\ FindIndexById(lv, levelId) >= 0
  /\ FindIndexById(lv, levelId) <= FindIndexById(lv, highest) + 1

\* selectLevel: the level exists and levelIndex <= highestUnlockedIndex.
SelectLevelAllowed(lv, levelId, highest) ==
  /\ FindIndexById(lv, levelId) >= 0
  /\ FindIndexById(lv, levelId) <= FindIndexById(lv, highest)

\* selectLevel(levelId), called from the LevelSelector.
SelectLevel(levelId) ==
  /\ currentView = "level_selector"
  /\ IF FindIndexById(levels, levelId) < 0
     THEN UNCHANGED << currentView, currentLevelId, alertMessage, sessionVars >>
     ELSE IF SelectLevelAllowed(levels, levelId, highestLevelUnlocked)
     THEN /\ currentLevelId' = levelId
          /\ currentView' = "level_view"
          /\ SessionMounted(At(levels, FindIndexById(levels, levelId)),
                            ProgressOf(userProgress, levelId))
          /\ UNCHANGED alertMessage
     ELSE /\ alertMessage' = LockedMessage(levels, FindIndexById(levels, highestLevelUnlocked))
          /\ UNCHANGED << currentView, currentLevelId, sessionVars >>
  /\ UNCHANGED << levels, appCrashed, validatorVars, chatVars, userProgress, highestLevelUnlocked, storage, timers >>

\* An onExit that clears the selected level and leaves the view as it is.
ExitLevel_KeepsView ==
  /\ LevelViewMounted
  /\ Screen(CurrentLevel, ProgressOf(userProgress, currentLevelId), currentTaskIndex)
       # "loading"
  /\ currentLevelId' = Null
  /\ SessionUnmounted
  /\ timers' = Orphaned(timers)
  /\ UNCHANGED << levels, appCrashed, validatorVars, chatVars, currentView, userProgress,
                  highestLevelUnlocked, storage, alertMessage >>

\* An onExit that also forgets what was done in the level being left.
ExitLevel_ForgetsLevel ==
  /\ LevelViewMounted
  /\ Screen(CurrentLevel, ProgressOf(userProgress, currentLevelId), currentTaskIndex)
       # "loading"
  /\ currentView' = "level_selector"
  /\ currentLevelId' = Null
  /\ SessionUnmounted
  /\ timers' = Orphaned(timers)
  /\ userProgress' = Put(userProgress, currentLevelId, DefaultLevelProgress)
  /\ ProgressEffect
  /\ UNCHANGED << levels, appCrashed, validatorVars, chatVars, alertMessage >>

\* onExit: "Exit Level" next to a task, "Back to Levels" on the Level
\* Complete screen.
ExitLevel ==
  /\ LevelViewMounted
  /\ Screen(CurrentLevel, ProgressOf(userProgress, currentLevelId), currentTaskIndex)
       # "loading"
  /\ currentView' = "level_selector"
  /\ currentLevelId' = Null
  /\ SessionUnmounted
  /\ timers' = Orphaned(timers)
  /\ UNCHANGED << levels, appCrashed, validatorVars, chatVars, userProgress, highestLevelUnlocked, storage, alertMessage >>

\* Reloading the page: every component starts again from localStorage and
\* pending timers are gone.  When the useState initializer raises an
\* exception nothing is rendered and no effect runs.
Reload ==
  /\ currentView' = "level_selector"
  /\ currentLevelId' = Null
  /\ IF LoadThrows(storage)
     THEN /\ appCrashed' = TRUE
          /\ userProgress' = EmptyStore
          /\ UNCHANGED << storage, highestLevelUnlocked >>
     ELSE /\ appCrashed' = FALSE
          /\ userProgress' = LoadProgress(storage)
          /\ ProgressEffect
  /\ alertMessage' = NoAlert
  /\ SessionUnmounted
  /\ timers' = <<>>
  /\ UNCHANGED << levels, validatorVars, chatVars >>

\* ------------------------------------------------------------------------
\* LevelView handlers
\* ------------------------------------------------------------------------

\* What the learner may type: a text the current task rejects, one it
\* accepts, or one on which its validator raises.
EditorInputs(task) ==
  { "typo", task.solution } \cup ( IF task.guarded THEN {} ELSE { Crash } )

\* handleCodeChange(newCode)
HandleCodeChange(newCode) ==
  /\ HasCurrentTask
  /\ userCode' = newCode
  /\ feedback' = IF feedback # None /\ Get(feedback).success THEN feedback ELSE None
  /\ UNCHANGED << levels, appCrashed, validatorVars, chatVars, appVars, alertMessage, currentTaskIndex, projectCode,
                  isSubmitting, timers >>

\* A submit that does not look at isSubmitting.
CanSubmit_IgnoresSubmitting ==
  /\ HasCurrentTask
  /\ ~(feedback # None /\ Get(feedback).success)

\* The "Check Code" button is rendered and enabled, and handleSubmitCode
\* passes its own guard.
CanSubmit ==
  /\ HasCurrentTask
  /\ ~isSubmitting
  /\ ~(feedback # None /\ Get(feedback).success)

\* currentTask.validate(userCode, projectCode)
SubmitResult == Validate(CurrentTask, userCode, projectCode)

\* The accumulated code passed on without the validator's update.
UpdatedProjectCode_IgnoresResult(result, pc) == pc

\* const updatedProjectCode = result.updatedProjectCode || projectCode
UpdatedProjectCode(result, pc) ==
  IF result.updatedProjectCode # None THEN Get(result.updatedProjectCode) ELSE pc

\* The "was this the last task" test of handleSubmitCode.
WasLastTask(level, taskIndex, progress) ==
  \/ taskIndex >= Len(level.tasks) - 1
  \/ Cardinality(progress.completedTasks) + 1 = Len(level.tasks)

\* The failure branch without its setIsSubmitting(false).
SubmitFailure_StaysSubmitting ==
  /\ CanSubmit
  /\ ~ValidatorThrows(CurrentTask, userCode)
  /\ ~SubmitResult.success
  /\ feedback' = Some(SubmitResult)
  /\ isSubmitting' = TRUE
  /\ UNCHANGED << levels, appCrashed, validatorVars, chatVars, appVars, alertMessage, currentTaskIndex, userCode, projectCode,
                  timers >>

\* handleSubmitCode, validation failed.
SubmitFailure ==
  /\ CanSubmit
  /\ ~ValidatorThrows(CurrentTask, userCode)
  /\ ~SubmitResult.success
  /\ feedback' = Some(SubmitResult)
  /\ UNCHANGED << levels, appCrashed, validatorVars, chatVars, appVars, alertMessage, currentTaskIndex, userCode, projectCode,
                  isSubmitting, timers >>

\* handleSubmitCode, the validator raised: setIsSubmitting(true) has been
\* queued and is applied, the rest of the handler is skipped.
SubmitThrows ==
  /\ CanSubmit
  /\ ValidatorThrows(CurrentTask, userCode)
  /\ isSubmitting' = TRUE
  /\ UNCHANGED << levels, appCrashed, validatorVars, chatVars, appVars, alertMessage, currentTaskIndex, userCode,
                  feedback, projectCode, timers >>

\* handleSubmitCode, validation passed: the store is updated, the App
\* effect saves and recomputes the unlock, the LevelView effects select the
\* next uncompleted task and reseed the editor, and a timer is scheduled.
SubmitSuccess ==
  /\ CanSubmit
  /\ ~ValidatorThrows(CurrentTask, userCode)
  /\ SubmitResult.success
  /\ Len(timers) < MaxTimers
  /\ LET level == CurrentLevel
         task == CurrentTask
         result == SubmitResult
         updatedProjectCode == UpdatedProjectCode(result, projectCode)
         lastTask == WasLastTask(level, currentTaskIndex,
                                 ProgressOf(userProgress, level.id))
         newStore == updateTaskProgress(userProgress, levels, level.id, task.id,
                                        Some(updatedProjectCode))
         newProgress == ProgressOf(newStore, level.id)
         idx == FirstUncompletedIndex(level, newProgress)
     IN /\ userProgress' = newStore
        /\ ProgressEffect
        /\ currentTaskIndex' = idx
        /\ projectCode' = newProgress.currentProjectCode
        /\ isSubmitting' = TRUE
        /\ IF idx < Len(level.tasks)
           THEN \* the task changed: the editor is reseeded, feedback cleared
                /\ userCode' = StarterCode(At(level.tasks, idx), newProgress.currentProjectCode)
                /\ feedback' = None
           ELSE IF result.updatedProjectCode # None
           THEN \* projectCode changed while the passed task was still current
                /\ userCode' = StarterCode(task, newProgress.currentProjectCode)
                /\ feedback' = None
           ELSE /\ userCode' = userCode
                /\ feedback' = Some(result)
        /\ timers' = Append(timers,
                            [ kind |-> IF lastTask THEN "complete" ELSE "advance",
                              levelId |-> level.id,
                              taskIndex |-> currentTaskIndex,
                              code |-> updatedProjectCode,
                              live |-> TRUE ])
  /\ UNCHANGED << levels, appCrashed, validatorVars, chatVars, currentView, currentLevelId, alertMessage >>

\* The 1500 ms callback of a last task: onCompleteLevel(level.id,
\* updatedProjectCode), that is App.completeLevel, then setIsSubmitting(false).
CompleteLevelTimer ==
  /\ timers # <<>>
  /\ Head(timers).kind = "complete"
  /\ userProgress' = completeLevelProgress(userProgress, Head(timers).levelId,
                                           Some(Head(timers).code))
  /\ ProgressEffect
  /\ currentView' = "level_selector"
  /\ currentLevelId' = Null
  /\ SessionUnmounted
  /\ timers' = Orphaned(Tail(timers))
  /\ UNCHANGED << levels, appCrashed, validatorVars, chatVars, alertMessage >>

\* The 1500 ms callback of any other task: setFeedback(null),
\* setIsSubmitting(false); without effect once its LevelView is unmounted.
AdvanceTimer ==
  /\ timers # <<>>
  /\ Head(timers).kind = "advance"
  /\ IF Head(timers).live
     THEN /\ feedback' = None
          /\ isSubmitting' = FALSE
          /\ UNCHANGED << currentTaskIndex, userCode, projectCode >>
     ELSE UNCHANGED sessionVars
  /\ timers' = Tail(timers)
  /\ UNCHANGED << levels, appCrashed, validatorVars, chatVars, appVars, alertMessage >>

Next ==
  \/ \E levelId \in LevelIds(levels) \cup {UnknownLevelId} : SelectLevel(levelId)
  \/ ExitLevel
  \/ /\ HasCurrentTask
     /\ \E newCode \in EditorInputs(CurrentTask) : HandleCodeChange(newCode)
  \/ SubmitFailure
  \/ SubmitThrows
  \/ SubmitSuccess
  \/ CompleteLevelTimer
  \/ AdvanceTimer
  \/ Reload

Spec == Init /\ [][Next]_vars

\* ------------------------------------------------------------------------
\* The application on the part of the catalog where the CSS levels begin:
\* level 8 (a <style> tag, then a rule for h1) and level 9 (class and id
\* selectors), whose validators first look into the accumulated html.  No
\* validator of these levels runs outside a try/catch, so handleSubmitCode
\* never raises here.
\* ------------------------------------------------------------------------

SelectorLevels ==
  << [ id |-> "8", title |-> "Intro to CSS: Styling Basics", projectType |-> Null,
       tasks |-> << [id |-> "8.1", language |-> "html", starterFromProject |-> TRUE,
                     updatesProject |-> FALSE, solution |-> "sol-8.1",
                     guarded |-> TRUE, requiresHtml |-> Null],
                    [id |-> "8.2", language |-> "css", starterFromProject |-> TRUE,
                     updatesProject |-> FALSE, solution |-> "sol-8.2",
                     guarded |-> TRUE, requiresHtml |-> Null] >>,
       unlocksNextLevel |-> "9" ],
     [ id |-> "9", title |-> "CSS Selectors: Class & ID", projectType |-> Null,
       tasks |-> << [id |-> "9.1", language |-> "css", starterFromProject |-> TRUE,
                     updatesProject |-> FALSE, solution |-> "sol-9.1",
                     guarded |-> TRUE, requiresHtml |-> "class='highlight'"],
                    [id |-> "9.2", language |-> "css", starterFromProject |-> TRUE,
                     updatesProject |-> FALSE, solution |-> "sol-9.2",
                     guarded |-> TRUE, requiresHtml |-> "id='main-title'"] >>,
       unlocksNextLevel |-> Null ] >>

InitSelectors ==
  /\ levels = SelectorLevels
  /\ currentView = "level_selector"
  /\ currentLevelId = Null
  /\ userProgress = LoadProgress(NoItem)
  /\ storage = StringifyProgress(LoadProgress(NoItem))
  /\ highestLevelUnlocked = ComputeHighestUnlocked(SelectorLevels, LoadProgress(NoItem))
  /\ alertMessage = NoAlert
  /\ currentTaskIndex = 0
  /\ userCode = ""
  /\ feedback = None
  /\ projectCode = EmptyProjectCode
  /\ isSubmitting = FALSE
  /\ timers = <<>>
  /\ appCrashed = FALSE
  /\ htmlCheck = NoCheck
  /\ cssCheck = NoStyleCheck
  /\ ChatPageLoaded

NextSelectors ==
  \/ \E levelId \in LevelIds(levels) \cup {UnknownLevelId} : SelectLevel(levelId)
  \/ ExitLevel
  \/ /\ HasCurrentTask
     /\ \E newCode \in EditorInputs(CurrentTask) \cup { MarkedHtml } : HandleCodeChange(newCode)
  \/ SubmitFailure
  \/ SubmitSuccess
  \/ CompleteLevelTimer
  \/ AdvanceTimer
  \/ Reload

SpecSelectors == InitSelectors /\ [][NextSelectors]_vars

\* ------------------------------------------------------------------------
\* The store and the unlock policy on their own: any catalog that differs
\* from LEVELS in length and in its unlocksNextLevel pointers, any
\* completion flags, and the two store mutations called with any arguments.
\* ------------------------------------------------------------------------

PointerValues == LevelIds(LEVELS) \cup { Null, UnknownLevelId }

Catalogs ==
  { [ i \in 1 .. n |-> [ LEVELS[i] EXCEPT !.unlocksNextLevel = p[i] ] ] :
      n \in 1 .. Len(LEVELS), p \in [ DOMAIN LEVELS -> PointerValues ] }

FlagStores ==
  { [ l \in present |-> [ DefaultLevelProgress EXCEPT !.isCompleted = (l \in done) ] ] :
      present \in SUBSET LevelIds(LEVELS), done \in SUBSET LevelIds(LEVELS) }

InitUnlock ==
  /\ levels \in Catalogs
  /\ userProgress \in FlagStores
  /\ storage = StringifyProgress(userProgress)
  /\ highestLevelUnlocked = ComputeHighestUnlocked(levels, userProgress)
  /\ currentView = "level_selector"
  /\ currentLevelId = Null
  /\ alertMessage = NoAlert
  /\ currentTaskIndex = 0
  /\ userCode = ""
  /\ feedback = None
  /\ projectCode = EmptyProjectCode
  /\ isSubmitting = FALSE
  /\ timers = <<>>
  /\ appCrashed = FALSE
  /\ htmlCheck = NoCheck
  /\ cssCheck = NoStyleCheck
  /\ ChatPageLoaded

\* updateTaskProgress(levelId, taskId, undefined) followed by the App effect.
MarkTaskComplete(levelId, taskId) ==
  /\ userProgress' = updateTaskProgress(userProgress, levels, levelId, taskId, None)
  /\ ProgressEffect
  /\ UNCHANGED << levels, appCrashed, validatorVars, chatVars, currentView, currentLevelId, alertMessage, sessionVars, timers >>

\* completeLevel(levelId, undefined) followed by the App effect.
MarkLevelComplete(levelId) ==
  /\ userProgress' = completeLevelProgress(userProgress, levelId, None)
  /\ ProgressEffect
  /\ currentView' = "level_selector"
  /\ currentLevelId' = Null
  /\ UNCHANGED << levels, appCrashed, validatorVars, chatVars, alertMessage, sessionVars, timers >>

NextUnlock ==
  \/ \E i \in DOMAIN LEVELS : \E j \in DOMAIN LEVELS[i].tasks :
       MarkTaskComplete(LEVELS[i].id, LEVELS[i].tasks[j].id)
  \/ \E levelId \in LevelIds(LEVELS) : MarkLevelComplete(levelId)

SpecUnlock == InitUnlock /\ [][NextUnlock]_vars

\* ------------------------------------------------------------------------
\* The load on its own: the page is reloaded on an item that another writer
\* (an older version, another tab, the learner) has left in localStorage.
\* ------------------------------------------------------------------------

\* What the completedTasks field of a saved entry may hold.  A string is
\* listed with its characters, as new Set(string) would see them.
SavedCompletedTasks ==
  { [ kind |-> "array", items |-> a ] :
      a \in { <<>>, << "1.1" >>, << "1.1", "1.2" >>, << "1.1", "1.1" >>,
              << "1.2", "1.1", "1.2" >> } }
  \cup { [ kind |-> k, items |-> <<>> ] : k \in { "missing", "null", "zero", "object" } }
  \cup { [ kind |-> "string", items |-> << "1", ".", "1" >> ] }

\* What a per-level entry may be: null, a number, or an object.
SavedEntries ==
  { [ kind |-> k, completedTasks |-> [ kind |-> "missing", items |-> <<>> ],
      currentProjectCode |-> EmptyProjectCode, isCompleted |-> FALSE ] :
      k \in { "null", "scalar" } }
  \cup { [ kind |-> "object", completedTasks |-> ct, currentProjectCode |-> pc,
           isCompleted |-> done ] :
           ct \in SavedCompletedTasks,
           pc \in { EmptyProjectCode, WithField(EmptyProjectCode, "html", "sol-21.1") },
           done \in BOOLEAN }

\* What the item may hold: nothing, the empty string, a text that is not
\* JSON, the JSON values null, a number and a string, or a JSON object.
SavedItems ==
  { [ kind |-> k, entries |-> <<>> ] :
      k \in { "none", "empty", "invalid", "null", "scalar", "string" } }
  \cup { [ kind |-> "object", entries |-> e ] :
           e \in UNION { [ present -> SavedEntries ] : present \in SUBSET { "1", "21" } } }

InitLoad ==
  /\ levels = LEVELS
  /\ storage \in SavedItems
  /\ userProgress = EmptyStore
  /\ highestLevelUnlocked = ComputeHighestUnlocked(LEVELS, EmptyStore)
  /\ currentView = "level_selector"
  /\ currentLevelId = Null
  /\ alertMessage = NoAlert
  /\ currentTaskIndex = 0
  /\ userCode = ""
  /\ feedback = None
  /\ projectCode = EmptyProjectCode
  /\ isSubmitting = FALSE
  /\ timers = <<>>
  /\ appCrashed = FALSE
  /\ htmlCheck = NoCheck
  /\ cssCheck = NoStyleCheck
  /\ ChatPageLoaded

NextLoad == Reload

SpecLoad == InitLoad /\ [][NextLoad]_vars

\* ------------------------------------------------------------------------
\* validateHTMLStructure on its own: markups with or without the html, head
\* and body tags, a title, headings, a list and a link, checked against the
\* expectation lists of tasks 1.1, 1.2, 1.3, 4.1 and 5.1.
\* ------------------------------------------------------------------------

\* The parent of what is written where `wanted` would be: `wanted` when that
\* tag is written, else html when written, else the top level.
WrittenIn(structure, wanted) ==
  IF wanted \in structure THEN wanted
  ELSE IF "html" \in structure THEN "html"
  ELSE Null

StructureOf(structure) ==
  ( IF "html" \in structure THEN << Element("html", Null, <<>>, NoAttributes) >> ELSE <<>> )
  \o ( IF "head" \in structure
       THEN << Element("head", WrittenIn(structure, "html"), <<>>, NoAttributes) >>
       ELSE <<>> )

BodyOf(structure) ==
  IF "body" \in structure
  THEN << Element("body", WrittenIn(structure, "html"), <<>>, NoAttributes) >>
  ELSE <<>>

Titles(parent) ==
  { <<>>,
    << Element("title", parent, << "My", "First", "Page" >>, NoAttributes) >>,
    << Element("title", parent, << "Page" >>, NoAttributes) >> }

Headings(parent) ==
  { <<>>,
    << Element("h1", parent, << "Hello", "Guro!" >>, NoAttributes) >>,
    << Element("h1", parent, << "Hello" >>, NoAttributes),
       Element("h1", parent, << "Hello", "Guro!" >>, NoAttributes) >> }

Lists(parent) ==
  { <<>>,
    << Element("ul", parent, <<>>, NoAttributes),
       Element("li", "ul", << "Apple" >>, NoAttributes) >>,
    << Element("ul", parent, <<>>, NoAttributes),
       Element("li", "ul", << "Apple" >>, NoAttributes),
       Element("li", "ul", << "Banana" >>, NoAttributes) >> }

Links(parent) ==
  { <<>>,
    << Element("a", parent, << "Visit", "Google" >>,
               [ a \in { "href" } |-> "https://www.google.com" ]) >>,
    << Element("a", parent, << "Visit", "Google" >>, NoAttributes) >> }

Markups ==
  UNION { { StructureOf(structure) \o title \o BodyOf(structure) \o heading \o list \o link :
              title \in Titles(WrittenIn(structure, "head")),
              heading \in Headings(WrittenIn(structure, "body")),
              list \in Lists(WrittenIn(structure, "body")),
              link \in Links(WrittenIn(structure, "body")) } :
          structure \in SUBSET StructureTags }

ExpectationLists ==
  { << Expect("html", <<>>, <<>>, None, Null),
       Expect("head", <<>>, <<>>, None, "html"),
       Expect("body", <<>>, <<>>, None, "html") >>,
    << Expect("title", << "My", "First", "Page" >>, <<>>, None, "head") >>,
    << Expect("h1", << "Hello", "Guro!" >>, <<>>, None, "body") >>,
    << Expect("ul", <<>>, <<>>, None, Null),
       Expect("li", << "Apple" >>, <<>>, Some(1), "ul"),
       Expect("li", << "Banana" >>, <<>>, Some(1), "ul") >>,
    << Expect("a", << "Visit", "Google" >>,
              << << "href", "https://www.google.com" >> >>, None, Null) >> }

InitMarkup ==
  /\ levels = LEVELS
  /\ htmlCheck \in [ code : Markups, expectedElements : ExpectationLists, result : { None } ]
  /\ cssCheck = NoStyleCheck
  /\ ChatPageLoaded
  /\ userProgress = EmptyStore
  /\ storage = NoItem
  /\ highestLevelUnlocked = ComputeHighestUnlocked(LEVELS, EmptyStore)
  /\ currentView = "level_selector"
  /\ currentLevelId = Null
  /\ alertMessage = NoAlert
  /\ currentTaskIndex = 0
  /\ userCode = ""
  /\ feedback = None
  /\ projectCode = EmptyProjectCode
  /\ isSubmitting = FALSE
  /\ timers = <<>>
  /\ appCrashed = FALSE

\* validateHTMLStructure(code, expectedElements) is called.
CheckHTML ==
  /\ htmlCheck.result = None
  /\ htmlCheck' = [ htmlCheck EXCEPT
                      !.result = Some(validateHTMLStructure(htmlCheck.code,
                                                            htmlCheck.expectedElements)) ]
  /\ UNCHANGED << levels, appVars, alertMessage, sessionVars, timers, appCrashed,
                  cssCheck, chatVars >>

NextMarkup == CheckHTML

SpecMarkup == InitMarkup /\ [][NextMarkup]_vars

\* Task 4.1 on its own: a list of up to MaxItems items, inside a <ul> or
\* not, each item one of a few texts.
MaxItems == 3

ItemTexts ==
  { << "Apple" >>, << "Banana" >>, << "Cherry" >>, << "Apple", "Banana" >>, << "count" >> }

ItemLists(parent) ==
  UNION { { [ i \in 1 .. n |-> Element("li", parent, texts[i], NoAttributes) ] :
              texts \in [ 1 .. n -> ItemTexts ] } :
          n \in 0 .. MaxItems }

ListMarkups ==
  UNION { { StructureOf(structure) \o BodyOf(structure) \o items :
              items \in ItemLists(WrittenIn(structure, "body")) }
          \cup
          { StructureOf(structure) \o BodyOf(structure)
              \o << Element("ul", WrittenIn(structure, "body"), <<>>, NoAttributes) >>
              \o items :
              items \in ItemLists("ul") } :
          structure \in { {}, StructureTags } }

InitList ==
  /\ levels = LEVELS
  /\ htmlCheck \in [ code : ListMarkups, expectedElements : { Task41Expectations },
                      result : { None } ]
  /\ cssCheck = NoStyleCheck
  /\ ChatPageLoaded
  /\ userProgress = EmptyStore
  /\ storage = NoItem
  /\ highestLevelUnlocked = ComputeHighestUnlocked(LEVELS, EmptyStore)
  /\ currentView = "level_selector"
  /\ currentLevelId = Null
  /\ alertMessage = NoAlert
  /\ currentTaskIndex = 0
  /\ userCode = ""
  /\ feedback = None
  /\ projectCode = EmptyProjectCode
  /\ isSubmitting = FALSE
  /\ timers = <<>>
  /\ appCrashed = FALSE

\* The validator of task 4.1 is called.
CheckTask41 ==
  /\ htmlCheck.result = None
  /\ htmlCheck' = [ htmlCheck EXCEPT !.result = Some(validateTask41(htmlCheck.code)) ]
  /\ UNCHANGED << levels, appVars, alertMessage, sessionVars, timers, appCrashed,
                  cssCheck, chatVars >>

NextList == CheckTask41

SpecList == InitList /\ [][NextList]_vars

\* The quantity checks of validateHTMLStructure on their own: one expectation
\* without text or attributes, with no count or a count of 0, 1 or 2, for a
\* heading, a list item or the comment marker.
CountExpectations ==
  { << Expect(tag, <<>>, <<>>, count, Null) >> :
      tag \in { "h1", "li", CommentMarker },
      count \in { None, Some(0), Some(1), Some(2) } }

InitCount ==
  /\ levels = LEVELS
  /\ htmlCheck \in [ code : Markups, expectedElements : CountExpectations, result : { None } ]
  /\ cssCheck = NoStyleCheck
  /\ ChatPageLoaded
  /\ userProgress = EmptyStore
  /\ storage = NoItem
  /\ highestLevelUnlocked = ComputeHighestUnlocked(LEVELS, EmptyStore)
  /\ currentView = "level_selector"
  /\ currentLevelId = Null
  /\ alertMessage = NoAlert
  /\ currentTaskIndex = 0
  /\ userCode = ""
  /\ feedback = None
  /\ projectCode = EmptyProjectCode
  /\ isSubmitting = FALSE
  /\ timers = <<>>
  /\ appCrashed = FALSE

NextCount == CheckHTML

SpecCount == InitCount /\ [][NextCount]_vars

\* ------------------------------------------------------------------------
\* validateCSSProperties on its own: style texts with one or two rules,
\* checked against the expected styles of tasks 8.2, 14.1 and 11.1.
\* ------------------------------------------------------------------------

SelectorH1 == << "h", "1" >>

SelectorA == << "a" >>

SelectorP == << "p" >>

PropColor == << "c", "o", "l", "o", "r" >>

PropBackgroundColor == << "b", "a", "c", "k", "g", "r", "o", "u", "n", "d", "-" >> \o PropColor

PropTextDecoration ==
  << "t", "e", "x", "t", "-", "d", "e", "c", "o", "r", "a", "t", "i", "o", "n" >>

PropPadding == << "p", "a", "d", "d", "i", "n", "g" >>

ValueRed == << "r", "e", "d" >>

ValueRedCapitals == << "R", "E", "D" >>

ValueBlue == << "b", "l", "u", "e" >>

ValueGreen == << "g", "r", "e", "e", "n" >>

ValueNone == << "n", "o", "n", "e" >>

Value10px == << "1", "0", "p", "x" >>

\* `name: value;`
Declaration(name, value) == name \o << ":", " " >> \o value \o << ";" >>

\* `selector { body }`, or the same without its closing brace.
Rule(selector, body, closed) ==
  selector \o << " ", "{", " " >> \o body \o ( IF closed THEN << " ", "}" >> ELSE <<>> )

RuleBodies ==
  { <<>>,
    Declaration(PropColor, ValueRed),
    Declaration(PropColor, ValueRedCapitals),
    Declaration(PropColor, ValueBlue),
    PropColor \o << ":" >> \o ValueRed,
    PropColor \o << ":", " ", ";" >>,
    Declaration(PropBackgroundColor, ValueRed) \o << " " >> \o Declaration(PropColor, ValueBlue),
    Declaration(PropBackgroundColor, ValueBlue) \o << " " >> \o Declaration(PropColor, ValueRed),
    Declaration(PropColor, ValueGreen) \o << " " >> \o Declaration(PropTextDecoration, ValueNone),
    Declaration(PropColor, ValueGreen),
    Declaration(PropTextDecoration, ValueNone) \o << " " >> \o Declaration(PropColor, ValueRed),
    Declaration(PropPadding, Value10px \o << " ", "5", "p", "x" >>) }

StyleTexts ==
  { <<>>, SelectorH1 }
  \cup { Rule(selector, body, closed) :
           selector \in { SelectorH1, SelectorA, SelectorP },
           body \in RuleBodies, closed \in BOOLEAN }
  \cup { Rule(SelectorP, first, TRUE) \o << " " >> \o Rule(SelectorH1, second, TRUE) :
           first \in { Declaration(PropColor, ValueRed), Declaration(PropColor, ValueBlue) },
           second \in { Declaration(PropColor, ValueRed), Declaration(PropColor, ValueBlue) } }

Literal(text) == [ pattern |-> FALSE, text |-> text ]

Pattern(text) == [ pattern |-> TRUE, text |-> text ]

ExpectedStyleLists ==
  { << [ selector |-> SelectorH1,
         properties |-> << << PropColor, Literal(ValueRed) >> >> ] >>,
    << [ selector |-> SelectorA,
         properties |-> << << PropColor, Literal(ValueGreen) >>,
                           << PropTextDecoration, Literal(ValueNone) >> >> ] >>,
    << [ selector |-> SelectorP,
         properties |-> << << PropPadding, Pattern(Value10px) >> >> ] >> }

InitStyle ==
  /\ levels = LEVELS
  /\ cssCheck \in [ code : StyleTexts, expectedStyles : ExpectedStyleLists, result : { None } ]
  /\ ChatPageLoaded
  /\ htmlCheck = NoCheck
  /\ userProgress = EmptyStore
  /\ storage = NoItem
  /\ highestLevelUnlocked = ComputeHighestUnlocked(LEVELS, EmptyStore)
  /\ currentView = "level_selector"
  /\ currentLevelId = Null
  /\ alertMessage = NoAlert
  /\ currentTaskIndex = 0
  /\ userCode = ""
  /\ feedback = None
  /\ projectCode = EmptyProjectCode
  /\ isSubmitting = FALSE
  /\ timers = <<>>
  /\ appCrashed = FALSE

\* validateCSSProperties(code, expectedStyles) is called.
CheckCSS ==
  /\ cssCheck.result = None
  /\ cssCheck' = [ cssCheck EXCEPT
                     !.result = Some(validateCSSProperties(cssCheck.code,
                                                           cssCheck.expectedStyles)) ]
  /\ UNCHANGED << levels, appVars, alertMessage, sessionVars, timers, appCrashed,
                  htmlCheck, chatVars >>

NextStyle == CheckCSS

SpecStyle == InitStyle /\ [][NextStyle]_vars

\* ------------------------------------------------------------------------
\* index.tsx: the chat page.  A message element has its sender, the number
\* of the exchange it was created for, and what its .message-content and
\* .message-actions hold: the loading indicator, the chunks streamed into
\* it, whether it has been finalised, an error text, the grounding sources.
\* ------------------------------------------------------------------------

MaxExchanges == 2

MaxChunks == 2

MessageElement(sender, exchange) ==
  [ sender |-> sender, exchange |-> exchange, loading |-> sender = "model", chunks |-> 0,
    final |-> FALSE, error |-> FALSE, sources |-> FALSE ]

\* UI.updateLastMessage(chunk, isFinal): `added` chunks are appended to the
\* element AppState.currentAIMessageElement points to, if any.
UpdateLastMessage(added, isFinal, isError) ==
  IF currentAIMessageElement # 0
  THEN /\ messages' = [ messages EXCEPT
                          ![currentAIMessageElement] =
                             [ @ EXCEPT !.loading = FALSE,
                                        !.chunks = @ + added,
                                        !.final = isFinal,
                                        !.error = isError ] ]
       /\ currentAIMessageElement' = IF isFinal THEN 0 ELSE currentAIMessageElement
  ELSE UNCHANGED << messages, currentAIMessageElement >>

\* UI.displayGroundingSources(sources), applied to the elements as they are
\* after updateLastMessage.
DisplayGroundingSources(elements) ==
  IF chatLog # <<>> /\ elements[chatLog[Len(chatLog)]].sender = "model"
  THEN [ elements EXCEPT ![chatLog[Len(chatLog)]].sources = TRUE ]
  ELSE elements

\* App.sendMessage up to its first await: toggleLoading(true) appends the
\* model element with the loading indicator, then addMessage('user', ...)
\* appends the user's element.
SendMessage ==
  /\ ~isLoading
  /\ Len(messages) < 2 * MaxExchanges
  /\ LET exchange == ( Len(messages) \div 2 ) + 1
         modelElement == Len(messages) + 1
         userElement == Len(messages) + 2
     IN /\ isLoading' = TRUE
        /\ messages' = messages \o << MessageElement("model", exchange),
                                      MessageElement("user", exchange) >>
        /\ chatLog' = chatLog \o << modelElement, userElement >>
        /\ currentAIMessageElement' = modelElement
  /\ streaming' = TRUE
  /\ groundingMetadata' = FALSE
  /\ received' = 0
  /\ UNCHANGED << levels, appVars, alertMessage, sessionVars, timers, appCrashed,
                  validatorVars >>

\* One turn of `for await (const chunk of responseStream)`.
StreamChunk(grounded) ==
  /\ streaming
  /\ received < MaxChunks
  /\ received' = received + 1
  /\ UpdateLastMessage(1, FALSE, FALSE)
  /\ groundingMetadata' = ( groundingMetadata \/ grounded )
  /\ UNCHANGED << chatLog, isLoading, streaming >>
  /\ UNCHANGED << levels, appVars, alertMessage, sessionVars, timers, appCrashed,
                  validatorVars >>

\* The stream is exhausted: updateLastMessage('', true), the grounding
\* sources, then the finally block.
StreamEnd ==
  /\ streaming
  /\ IF currentAIMessageElement # 0
     THEN /\ messages' =
               LET finalised == [ messages EXCEPT
                                    ![currentAIMessageElement] =
                                       [ @ EXCEPT !.loading = FALSE, !.final = TRUE ] ]
               IN IF groundingMetadata THEN DisplayGroundingSources(finalised)
                  ELSE finalised
          /\ currentAIMessageElement' = 0
     ELSE /\ messages' = IF groundingMetadata THEN DisplayGroundingSources(messages)
                         ELSE messages
          /\ UNCHANGED currentAIMessageElement
  /\ isLoading' = FALSE
  /\ streaming' = FALSE
  /\ UNCHANGED << chatLog, groundingMetadata, received >>
  /\ UNCHANGED << levels, appVars, alertMessage, sessionVars, timers, appCrashed,
                  validatorVars >>

\* sendMessageStream or the stream raises: the catch block writes the error
\* into the current model element, then the finally block.
StreamError ==
  /\ streaming
  /\ UpdateLastMessage(0, TRUE, TRUE)
  /\ isLoading' = FALSE
  /\ streaming' = FALSE
  /\ UNCHANGED << chatLog, groundingMetadata, received >>
  /\ UNCHANGED << levels, appVars, alertMessage, sessionVars, timers, appCrashed,
                  validatorVars >>

\* confirmClearChat, confirmed: the log is emptied and a new chat started;
\* a response in flight keeps writing into its removed element.
ClearChat ==
  /\ chatLog # <<>>
  /\ chatLog' = <<>>
  /\ UNCHANGED << messages, isLoading, currentAIMessageElement, streaming,
                  groundingMetadata, received >>
  /\ UNCHANGED << levels, appVars, alertMessage, sessionVars, timers, appCrashed,
                  validatorVars >>

InitChat ==
  /\ levels = LEVELS
  /\ htmlCheck = NoCheck
  /\ cssCheck = NoStyleCheck
  /\ ChatPageLoaded
  /\ userProgress = EmptyStore
  /\ storage = NoItem
  /\ highestLevelUnlocked = ComputeHighestUnlocked(LEVELS, EmptyStore)
  /\ currentView = "level_selector"
  /\ currentLevelId = Null
  /\ alertMessage = NoAlert
  /\ currentTaskIndex = 0
  /\ userCode = ""
  /\ feedback = None
  /\ projectCode = EmptyProjectCode
  /\ isSubmitting = FALSE
  /\ timers = <<>>
  /\ appCrashed = FALSE

NextChat ==
  \/ SendMessage
  \/ \E grounded \in BOOLEAN : StreamChunk(grounded)
  \/ StreamEnd
  \/ StreamError
  \/ ClearChat

SpecChat == InitChat /\ [][NextChat]_vars

\* ------------------------------------------------------------------------
\* Properties
\* ------------------------------------------------------------------------

\* C1: for every level of the catalog, isCompleted is set exactly when the
\* number of completed tasks equals the number of tasks of the level, in
\* every state the application reaches (after each store mutation and after
\* a reload from the saved progress).
C1_CompletedIffAllTasks ==
  \A i \in Indices(levels) :
    IsCompleted(userProgress, At(levels, i).id)
      <=> ( Cardinality(ProgressOf(userProgress, At(levels, i).id).completedTasks)
              = Len(At(levels, i).tasks) )

\* One level completed and a later one partly done.
C1_Witness ==
  /\ IsCompleted(userProgress, "1")
  /\ ProgressOf(userProgress, "21").completedTasks = { "21.1" }
  /\ ~IsCompleted(userProgress, "21")

\* The first level in catalog order whose flag is not set, or the last level.
FirstNotCompleted(lv, up) ==
  IF \E i \in Indices(lv) : ~IsCompleted(up, At(lv, i).id)
  THEN At(lv, CHOOSE i \in Indices(lv) :
                /\ ~IsCompleted(up, At(lv, i).id)
                /\ \A j \in 0 .. (i - 1) : IsCompleted(up, At(lv, j).id)).id
  ELSE At(lv, Len(lv) - 1).id

\* C2: for a non-empty catalog the highest unlocked level is the first level
\* in catalog order that is not completed, or the last level when all are
\* completed, whatever the unlocksNextLevel pointers are.
C2_HighestIsFirstNotCompleted ==
  Len(levels) > 0 => highestLevelUnlocked = FirstNotCompleted(levels, userProgress)

\* Every level completed by store mutations while the pointers lead elsewhere.
C2_Witness ==
  /\ Len(levels) = Len(LEVELS)
  /\ \A i \in Indices(levels) : IsCompleted(userProgress, At(levels, i).id)
  /\ ProgressOf(userProgress, "1").completedTasks = { "1.1", "1.2", "1.3" }
  /\ At(levels, 2).unlocksNextLevel = "1"
  /\ At(levels, 0).unlocksNextLevel = UnknownLevelId
  /\ highestLevelUnlocked = "22"

\* C3: after a successful submission of a task that is not the last, the
\* session keeps showing the passed task with its success feedback until the
\* 1500 ms delay fires.
C3_PassedTaskShownUntilDelay ==
  \A i \in DOMAIN timers :
    (timers[i].kind = "advance" /\ timers[i].live)
      => /\ currentTaskIndex = timers[i].taskIndex
         /\ feedback # None
         /\ Get(feedback).success

\* C4: a timer whose LevelView has been unmounted changes neither the view,
\* nor the selected level, nor the progress store when it fires.
C4_OrphanedTimerDiscarded ==
  [][ ( (CompleteLevelTimer \/ AdvanceTimer) /\ ~Head(timers).live )
        => UNCHANGED << currentView, currentLevelId, userProgress >> ]_vars

\* C5: a submission that fails leaves the session on the same task with the
\* validator's failure result as feedback, changes neither the store, the
\* saved progress nor the session's ProjectCode, and leaves submission
\* enabled.
C5_FailureKeepsTask ==
  [][ ( CanSubmit /\ ~SubmitResult.success /\ feedback = None /\ feedback' # None )
        => /\ feedback' = Some([ success |-> FALSE, message |-> "failed",
                                 updatedProjectCode |-> None ])
           /\ UNCHANGED << currentView, currentLevelId, currentTaskIndex, userCode,
                           projectCode, userProgress, storage, highestLevelUnlocked,
                           timers >>
           /\ CanSubmit' ]_vars

\* A failure message is showing on the second task of a level.
C5_Witness ==
  /\ currentLevelId = "21"
  /\ currentTaskIndex = 1
  /\ feedback # None
  /\ ~Get(feedback).success
  /\ ~isSubmitting

Rejected(levelId) ==
  \/ levelId \notin LevelIds(levels)
  \/ FindIndexById(levels, levelId) > FindIndexById(levels, highestLevelUnlocked)

\* C7: a rejected selection (unknown identifier, or a level beyond the
\* highest unlocked one) changes neither the view, the selected level, the
\* session nor the progress store.
C7_RejectedSelectionNoChange ==
  [][ \A levelId \in LevelIds(levels) \cup { UnknownLevelId } :
        ( Rejected(levelId) /\ SelectLevel(levelId) )
          => UNCHANGED << currentView, currentLevelId, userProgress, storage,
                          highestLevelUnlocked, sessionVars, timers >> ]_vars

\* A locked level was asked for after the first level had been completed.
C7_Witness ==
  /\ alertMessage.kind = "specific"
  /\ alertMessage.unlock = "Calc CSS: Styling"
  /\ currentView = "level_selector"

\* C8: a selection request for a catalog level at or before the highest
\* unlocked level is accepted, and every completed level is at or before the
\* highest unlocked level.
C8_UnlockedSelectionAccepted ==
  [][ /\ \A i \in Indices(levels) :
           IsCompleted(userProgress, At(levels, i).id)
             => i <= FindIndexById(levels, highestLevelUnlocked)
      /\ \A levelId \in LevelIds(levels) :
           ( /\ FindIndexById(levels, levelId) <= FindIndexById(levels, highestLevelUnlocked)
             /\ SelectLevel(levelId) )
             => ( currentLevelId' = levelId /\ currentView' = "level_view" ) ]_vars

\* A completed level is open for review.
C8_Witness ==
  /\ currentView = "level_view"
  /\ currentLevelId = "1"
  /\ IsCompleted(userProgress, "1")
  /\ highestLevelUnlocked = "21"

\* C9: saving a store the application has reached and loading it again
\* gives the same level identifiers and, for each, the same completed-task
\* set, ProjectCode and completion flag.
C9_SaveLoadRoundTrip ==
  LET reloaded == LoadProgress(StringifyProgress(userProgress))
  IN /\ DOMAIN reloaded = DOMAIN userProgress
     /\ \A l \in DOMAIN userProgress :
          /\ reloaded[l].completedTasks = userProgress[l].completedTasks
          /\ reloaded[l].currentProjectCode = userProgress[l].currentProjectCode
          /\ reloaded[l].isCompleted = userProgress[l].isCompleted

\* A store with a completed level and a partly done project level.
C9_Witness ==
  /\ IsCompleted(userProgress, "1")
  /\ ProgressOf(userProgress, "21").completedTasks = { "21.1" }
  /\ ProgressOf(userProgress, "21").currentProjectCode.html = "sol-21.1"

\* C10: between events the saved item is the serialization of the store in
\* memory, so that loading it gives back every completed task.
C10_SavedAfterEveryMutation ==
  /\ storage = StringifyProgress(userProgress)
  /\ \A i \in Indices(levels) :
       ProgressOf(userProgress, At(levels, i).id).completedTasks
         \subseteq ProgressOf(LoadProgress(storage), At(levels, i).id).completedTasks

\* Two of the three tasks of the first level are saved and nothing is pending.
C10_Witness ==
  /\ timers = <<>>
  /\ "1" \in DOMAIN storage.entries
  /\ Len(storage.entries["1"].completedTasks.items) = 2
  /\ ProgressOf(userProgress, "1").completedTasks = { "1.1", "1.2" }

\* C11: loading never fails, whatever the saved item holds: with no item, a
\* text that is not JSON or a JSON value that is not an object the load gives
\* an empty store, and a per-level entry that is null or not an object is
\* repaired to the default entry.
C11_LoadNeverFails ==
  [][ Reload =>
        /\ ~appCrashed'
        /\ storage.kind # "object" => userProgress' = EmptyStore
        /\ storage.kind = "object" =>
             \A l \in DOMAIN storage.entries :
               storage.entries[l].kind # "object"
                 => ProgressOf(userProgress', l) = DefaultLevelProgress ]_vars

\* C12: when the saved item is an object whose entries are objects the load
\* returns, and whenever the load returns, each entry's completedTasks is a
\* set: the elements of the saved array, each once, or the empty set when the
\* saved field is missing or is not an array.
C12_CompletedTasksCoerced ==
  [][ Reload =>
        /\ ( /\ storage.kind = "object"
             /\ \A l \in DOMAIN storage.entries : storage.entries[l].kind = "object" )
             => ~appCrashed'
        /\ ( storage.kind = "object" /\ ~appCrashed' )
             => \A l \in DOMAIN storage.entries :
                  LET saved == storage.entries[l].completedTasks
                      loaded == userProgress'[l].completedTasks
                  IN /\ IsFiniteSet(loaded)
                     /\ saved.kind = "array"
                          => /\ \A t \in loaded : \E i \in DOMAIN saved.items : saved.items[i] = t
                             /\ \A i \in DOMAIN saved.items : saved.items[i] \in loaded
                             /\ Cardinality(loaded) <= Len(saved.items)
                     /\ saved.kind # "array" => loaded = {} ]_vars

\* A store loaded from an item with a repeated task and a malformed field.
C12_Witness ==
  /\ ~appCrashed
  /\ DOMAIN userProgress = { "1", "21" }
  /\ userProgress["1"].completedTasks = { "1.1", "1.2" }
  /\ userProgress["1"].isCompleted
  /\ userProgress["21"].completedTasks = {}
  /\ userProgress["21"].currentProjectCode.html = "sol-21.1"
  /\ storage = StringifyProgress(userProgress)

\* C13: a validation runs only when no submission is under way and no
\* display delay of the session is pending; a successful submission marks
\* exactly its own task, which was not completed before, once; and while a
\* delay of the session is pending the session is submitting and a submit
\* request is ignored.
C13_NoSubmitWhilePending ==
  [][ /\ ( SubmitFailure \/ SubmitThrows \/ SubmitSuccess )
           => /\ ~isSubmitting
              /\ \A i \in DOMAIN timers : ~timers[i].live
      /\ SubmitSuccess
           => /\ CurrentTask.id \notin ProgressOf(userProgress, currentLevelId).completedTasks
              /\ ProgressOf(userProgress', currentLevelId).completedTasks
                   = ProgressOf(userProgress, currentLevelId).completedTasks
                       \cup { CurrentTask.id }
              /\ \A l \in DOMAIN userProgress' :
                   l # currentLevelId => ( l \in DOMAIN userProgress
                                           /\ userProgress'[l] = userProgress[l] )
              /\ Len(timers') = Len(timers) + 1
      /\ ( \E i \in DOMAIN timers' : timers'[i].live )
           => ( isSubmitting' /\ ~CanSubmit' )
      /\ Cardinality({ i \in DOMAIN timers' : timers'[i].live }) <= 1 ]_vars

\* The second task is shown while the delay of the first is pending.
C13_Witness ==
  /\ currentLevelId = "1"
  /\ currentTaskIndex = 1
  /\ isSubmitting
  /\ \E i \in DOMAIN timers : timers[i].live /\ timers[i].taskIndex = 0
  /\ ProgressOf(userProgress, "1").completedTasks = { "1.1" }

\* C14: on entering a level the current task is the first task, in the
\* level's task order, whose identifier is not in the level's
\* completedTasks, shown with its editor; when every task identifier is in
\* completedTasks no task is current and the "Level Complete!" screen, which
\* has an exit, is shown.
C14_EntersAtFirstUncompleted ==
  [][ \A levelId \in LevelIds(levels) :
        ( SelectLevel(levelId) /\ currentView' = "level_view" )
          => LET level == At(levels, FindIndexById(levels, levelId))
                 progress == ProgressOf(userProgress', levelId)
                 done == progress.completedTasks
             IN /\ currentTaskIndex' \in 0 .. Len(level.tasks)
                /\ \A j \in 0 .. (currentTaskIndex' - 1) : At(level.tasks, j).id \in done
                /\ currentTaskIndex' < Len(level.tasks)
                     => /\ At(level.tasks, currentTaskIndex').id \notin done
                        /\ Screen(level, progress, currentTaskIndex') = "task"
                /\ currentTaskIndex' = Len(level.tasks)
                     => Screen(level, progress, currentTaskIndex') = "level_complete" ]_vars

\* The completed level 21 has been entered again, with nothing pending.
C14_Witness ==
  /\ currentView = "level_view"
  /\ currentLevelId = "21"
  /\ currentTaskIndex = 2
  /\ timers = <<>>
  /\ ProgressOf(userProgress, "21").completedTasks = { "21.1", "21.2" }

C16_ValidatorExceptionDegrades ==
  [][ SubmitThrows
        => /\ UNCHANGED << userProgress, storage, highestLevelUnlocked, currentView,
                           currentLevelId, currentTaskIndex >>
           /\ CanSubmit' ]_vars

\* C17: a rejected selection of a locked level shows the advisory naming the
\* highest unlocked level, to be completed, and the level right after it;
\* the generic advisory is shown only when no level follows the highest
\* unlocked one.
C17_LockedMessageNamesPrerequisite ==
  [][ \A levelId \in LevelIds(levels) :
        ( /\ FindIndexById(levels, levelId) > FindIndexById(levels, highestLevelUnlocked)
          /\ SelectLevel(levelId) )
          => LET h == FindIndexById(levels, highestLevelUnlocked)
             IN /\ h + 1 < Len(levels)
                   => alertMessage' = [ kind |-> "specific",
                                        complete |-> At(levels, h).title,
                                        unlock |-> At(levels, h + 1).title ]
                /\ alertMessage'.kind = "generic" => h + 1 >= Len(levels) ]_vars

\* The last level was asked for before the first level was completed.
C17_Witness ==
  /\ alertMessage.kind = "specific"
  /\ alertMessage.complete = "Intro: What is HTML?"
  /\ alertMessage.unlock = "Calc HTML: Structure"
  /\ highestLevelUnlocked = "1"

\* C18: marking a task that is already in the level's completedTasks leaves
\* the completed-task set, the completion flag, the other levels' entries
\* and the set of levels as they were, and marking any task twice with the
\* same arguments gives the same store as marking it once.
C18_MarkTaskCompleteIdempotent ==
  \A i \in DOMAIN LEVELS : \A j \in DOMAIN LEVELS[i].tasks :
    \A update \in { None, Some(WithField(EmptyProjectCode, "html", "sol-21.1")) } :
      LET levelId == LEVELS[i].id
          taskId == LEVELS[i].tasks[j].id
          once == updateTaskProgress(userProgress, levels, levelId, taskId, update)
          twice == updateTaskProgress(once, levels, levelId, taskId, update)
      IN /\ twice = once
         /\ taskId \in ProgressOf(userProgress, levelId).completedTasks
              => /\ DOMAIN once = DOMAIN userProgress
                 /\ once[levelId].completedTasks = userProgress[levelId].completedTasks
                 /\ once[levelId].isCompleted = userProgress[levelId].isCompleted
                 /\ \A l \in DOMAIN userProgress : l # levelId => once[l] = userProgress[l]

\* Tasks of two levels have been marked, one level with all its tasks.
C18_Witness ==
  /\ Len(levels) = Len(LEVELS)
  /\ ProgressOf(userProgress, "22").completedTasks = { "22.1" }
  /\ IsCompleted(userProgress, "22")
  /\ ProgressOf(userProgress, "1").completedTasks = { "1.1", "1.3" }
  /\ ~IsCompleted(userProgress, "1")

\* C19: while a level of a project is open, the ProjectCode of the session
\* holds every field accumulated in the completed earlier levels of the same
\* project.
C19_ProjectCodeSharedAcrossLevels ==
  LevelViewMounted
    => \A i \in Indices(levels) :
         ( /\ i < FindIndexById(levels, currentLevelId)
           /\ At(levels, i).projectType # Null
           /\ At(levels, i).projectType = CurrentLevel.projectType
           /\ IsCompleted(userProgress, At(levels, i).id) )
           => \A field \in { "html", "css", "js" } :
                ProgressOf(userProgress, At(levels, i).id).currentProjectCode[field] # Null
                  => projectCode[field] # Null

\* An expectation is met by the markup as written: among the elements
\* written with the tag (inside an element of the parent tag, when one is
\* asked for) there are as many as the count asks for, or at least one, and
\* the first of them has the text and the attributes asked for.
MetBy(code, el) ==
  LET written == { i \in DOMAIN code :
                     /\ code[i].tag = el.tag
                     /\ el.parentSelector # Null => code[i].parent = el.parentSelector }
      first == CHOOSE i \in written : \A j \in written : i <= j
  IN /\ IF el.count # None THEN Cardinality(written) = Get(el.count) ELSE written # {}
     /\ written # {} =>
          /\ el.text # <<>> => Includes(TextContent(code, first), el.text)
          /\ \A a \in DOMAIN el.attributes :
               GetAttribute(code[first], el.attributes[a][1]) = el.attributes[a][2]

\* C20: validateHTMLStructure returns success exactly when the markup as
\* written meets every expectation of the list; otherwise it returns a
\* failure, never an exception, naming the tag and parent of the first
\* expectation in list order that is not met.  So the markup with html, head
\* and body passes the list of task 1.1 and the same markup without its head
\* fails with a message naming head.
C20_SuccessIffEveryExpectationMet ==
  htmlCheck.result # None
    => LET code == htmlCheck.code
           expectedElements == htmlCheck.expectedElements
           result == Get(htmlCheck.result)
           unmet == { k \in DOMAIN expectedElements : ~MetBy(code, expectedElements[k]) }
           firstUnmet == CHOOSE k \in unmet : \A j \in unmet : k <= j
       IN /\ result.success <=> unmet = {}
          /\ result.message.kind # "error"
          /\ ~result.success /\ unmet # {}
               => /\ result.message.tag = expectedElements[firstUnmet].tag
                  /\ result.message.parentSelector
                       = expectedElements[firstUnmet].parentSelector

\* The pieces of a text between the occurrences of a separator.
RECURSIVE SplitBy(_, _)
SplitBy(text, separator) ==
  LET at == IndexOf(text, << separator >>, 0)
  IN IF at = -1 THEN << text >>
     ELSE << Substring(text, 0, at) >> \o SplitBy(SubSeq(text, at + 2, Len(text)), separator)

\* The values a block declares for the property with the given name.
DeclaredValues(ruleContent, name) ==
  LET declarations == SplitBy(ruleContent, ";")
  IN { Trim(Substring(declarations[d], IndexOf(declarations[d], << ":" >>, 0) + 1,
                      Len(declarations[d]))) :
         d \in { e \in DOMAIN declarations :
                   /\ IndexOf(declarations[e], << ":" >>, 0) >= 0
                   /\ Trim(Substring(declarations[e], 0,
                                     IndexOf(declarations[e], << ":" >>, 0))) = name } }

\* The first brace-delimited block after the first occurrence of the
\* selector text, or None.
BlockOf(code, selector) ==
  LET at == IndexOf(code, selector, 0)
      open == IndexOf(code, << "{" >>, at)
      close == IndexOf(code, << "}" >>, open)
  IN IF at = -1 \/ open = -1 \/ close = -1 THEN None
     ELSE Some(Substring(code, open + 1, close))

\* The block declares the property with a value that equals the expected
\* literal without regard to case, or in which the expected pattern occurs.
PropertyMet(ruleContent, property) ==
  \E actual \in DeclaredValues(ruleContent, property[1]) :
    IF property[2].pattern THEN Includes(actual, property[2].text)
    ELSE ToLowerCase(actual) = ToLowerCase(property[2].text)

StyleMet(code, style) ==
  /\ BlockOf(code, style.selector) # None
  /\ \A k \in DOMAIN style.properties :
       PropertyMet(Get(BlockOf(code, style.selector)), style.properties[k])

\* C21: validateCSSProperties returns success exactly when, for every
\* expected style, the selector text occurs in the style text and the first
\* block after its first occurrence declares each required property with
\* the expected value; otherwise it returns a failure naming the selector of
\* the first style not met and, when that style's block is found, the first
\* property not met.  So 'h1 { color: red; }' passes {h1, color: red} and
\* 'h1 { color: blue; }' fails naming color and h1.
C21_SuccessIffEveryStyleMet ==
  cssCheck.result # None
    => LET code == cssCheck.code
           expectedStyles == cssCheck.expectedStyles
           result == Get(cssCheck.result)
           unmet == { k \in DOMAIN expectedStyles : ~StyleMet(code, expectedStyles[k]) }
           style == expectedStyles[MinOf(unmet)]
           block == BlockOf(code, style.selector)
           unmetProperties == { k \in DOMAIN style.properties :
                                  ~PropertyMet(Get(block), style.properties[k]) }
       IN /\ result.success <=> unmet = {}
          /\ ~result.success /\ unmet # {}
               => /\ result.message.selector = style.selector
                  /\ block # None
                       => result.message.property
                            = style.properties[MinOf(unmetProperties)][1]

\* C22: for one expectation and n elements of the document that match it,
\* with a count c the check passes exactly when n = c (c = 0 included);
\* without a count it passes exactly when n >= 1, and for the comment marker
\* it passes with n = 0.
C22_CountSemantics ==
  htmlCheck.result # None
    => LET el == htmlCheck.expectedElements[1]
           doc == ParseHTML(htmlCheck.code)
           n == Cardinality({ i \in DOMAIN doc :
                                /\ doc[i].tag = el.tag
                                /\ el.parentSelector # Null
                                     => doc[i].parent = el.parentSelector })
           passes == Get(htmlCheck.result).success
       IN /\ el.count # None => ( passes <=> n = Get(el.count) )
          /\ ( el.count = None /\ el.tag # CommentMarker ) => ( passes <=> n >= 1 )
          /\ ( el.count = None /\ el.tag = CommentMarker /\ n = 0 ) => passes

\* C23: exiting a level, whatever the task, the editor text and the feedback
\* shown, leaves the progress store, its saved copy and the highest-unlocked
\* level exactly as they were; only the session (current level, current
\* task, editor text, feedback) is discarded.
C23_ExitKeepsProgress ==
  [][ ExitLevel
        => /\ userProgress' = userProgress
           /\ storage' = storage
           /\ highestLevelUnlocked' = highestLevelUnlocked
           /\ currentLevelId' = Null
           /\ currentTaskIndex' = 0
           /\ userCode' = ""
           /\ feedback' = None ]_vars

\* Level 1 was left mid-way, one task passed and its delay still pending:
\* the passed task is still in the store and in its saved copy.
C23_Witness ==
  /\ currentView = "level_selector"
  /\ Len(timers) = 1
  /\ ~timers[1].live
  /\ timers[1].kind = "advance"
  /\ "1" \in DOMAIN userProgress
  /\ userProgress["1"].completedTasks = { "1.1" }
  /\ storage = StringifyProgress(userProgress)

\* C24: starting from an empty store, after every step the highest-unlocked
\* level is the one computed from the store of that step; it changes only
\* when the store does, and then to the level that immediately follows the
\* previous one in catalog order: its index never decreases and never
\* advances by more than one.
C24_UnlockAdvancesOneAtATime ==
  [][ LET before == FindIndexById(levels, highestLevelUnlocked)
          after == FindIndexById(levels, highestLevelUnlocked')
      IN /\ highestLevelUnlocked' = ComputeHighestUnlocked(levels, userProgress')
         /\ userProgress' = userProgress => after = before
         /\ after # before => after = before + 1 ]_vars

\* The unlock has advanced twice, once per completed level.
C24_Witness ==
  /\ highestLevelUnlocked = "22"
  /\ IsCompleted(userProgress, "1")
  /\ IsCompleted(userProgress, "21")
  /\ ~IsCompleted(userProgress, "22")
  /\ ~appCrashed

\* C25: progress is monotonic: no step of the application deletes a level's
\* entry from the store, removes a task identifier from a level's
\* completedTasks, or resets a level's isCompleted from true to false.
C25_ProgressMonotonic ==
  [][ \A l \in DOMAIN userProgress :
        /\ l \in DOMAIN userProgress'
        /\ userProgress[l].completedTasks \subseteq userProgress'[l].completedTasks
        /\ userProgress[l].isCompleted => userProgress'[l].isCompleted ]_vars

\* Two levels worked through one after the other: the entry of the first is
\* still whole after every mutation made for the second.
C25_Witness ==
  /\ DOMAIN userProgress = { "1", "21" }
  /\ userProgress["1"].completedTasks = { "1.1", "1.2", "1.3" }
  /\ userProgress["1"].isCompleted
  /\ userProgress["21"].completedTasks = { "21.1", "21.2" }
  /\ userProgress["21"].isCompleted
  /\ currentView = "level_selector"
  /\ timers = <<>>

\* The task identifiers of a level of the catalog.
TaskIds(level) == { At(level.tasks, k).id : k \in Indices(level.tasks) }

\* C26: in every state reached from an empty store the completed levels are
\* a prefix of the catalog order (no level is completed while an earlier one
\* is not), and every entry of the store belongs to a level of the catalog
\* and holds only task identifiers of that level.
C26_CompletedLevelsFormPrefix ==
  /\ \A i \in Indices(levels) :
       IsCompleted(userProgress, At(levels, i).id)
         => \A j \in 0 .. (i - 1) : IsCompleted(userProgress, At(levels, j).id)
  /\ \A l \in DOMAIN userProgress :
       /\ FindIndexById(levels, l) >= 0
       /\ userProgress[l].completedTasks
            \subseteq TaskIds(At(levels, FindIndexById(levels, l)))

\* The second level is under way, its second task on screen, the first
\* level behind it completed.
C26_Witness ==
  /\ currentView = "level_view"
  /\ currentLevelId = "21"
  /\ currentTaskIndex = 1
  /\ IsCompleted(userProgress, "1")
  /\ "21" \in DOMAIN userProgress
  /\ userProgress["21"].completedTasks = { "21.1" }
  /\ ~userProgress["21"].isCompleted

\* C27: every level can be completed, so no task is stuck: whenever a task
\* is on screen there is a text the learner can submit that its validator
\* accepts with the ProjectCode accumulated so far.
C27_NoStuckTask ==
  HasCurrentTask
    => \E code \in EditorInputs(CurrentTask) \cup { MarkedHtml } :
         /\ ~ValidatorThrows(CurrentTask, code)
         /\ Validate(CurrentTask, code, projectCode).success

\* C28: in the level-running view the current level identifier is set,
\* names a level of the catalog, and that level is not after the
\* highest-unlocked one in catalog order; and whenever no level is selected
\* the view is the level browser.
C28_NeverInsideLockedLevel ==
  /\ currentView = "level_view"
       => /\ currentLevelId # Null
          /\ FindIndexById(levels, currentLevelId) >= 0
          /\ FindIndexById(levels, currentLevelId)
               <= FindIndexById(levels, highestLevelUnlocked)
  /\ currentLevelId = Null => currentView = "level_selector"

\* The first level is open again after the two levels before the last have
\* been completed.
C28_Witness ==
  /\ currentView = "level_view"
  /\ currentLevelId = "1"
  /\ highestLevelUnlocked = "22"

\* C29: task 4.1 accepts the solution its instruction asks for: a markup
\* whose <ul> has exactly two <li> children with the texts Apple and Banana
\* is reported as success, and a <ul> with a single <li> as failure.
C29_TwoItemListAccepted ==
  htmlCheck.result # None
    => LET doc == ParseHTML(htmlCheck.code)
           lis == { i \in DOMAIN doc : doc[i].tag = "li" /\ doc[i].parent = "ul" }
           texts == { TextContent(doc, i) : i \in lis }
           result == Get(htmlCheck.result)
       IN /\ ( Cardinality(lis) = 2 /\ texts = { << "Apple" >>, << "Banana" >> } )
               => result.success
          /\ Cardinality(lis) = 1 => ~result.success

\* C30: in the chat page, for every message sent the user's entry comes in
\* the log before the model's response to it, and once the stream has
\* finished the last entry of the log is that model response.
C30_QuestionBeforeAnswer ==
  /\ \A i, j \in DOMAIN chatLog :
       ( /\ messages[chatLog[i]].exchange = messages[chatLog[j]].exchange
         /\ messages[chatLog[i]].sender = "user"
         /\ messages[chatLog[j]].sender = "model" )
         => i < j
  /\ ( ~isLoading /\ chatLog # <<>> )
       => messages[chatLog[Len(chatLog)]].sender = "model"

====
